---- MODULE Spec2Model ----
(***************************************************************************)
(* Model of the peer replication subsystem of defradb:                     *)
(*   - the LWW register CRDT (core/crdt lwwreg),                           *)
(*   - the inbound push handler server.PushLog with its docQueue,          *)
(*   - the replicator registry of net.Peer.                                *)
(* Each subsystem has its own specification (SpecLWW, SpecPush, SpecRep);  *)
(* the variables of the other subsystems stay at their initial value.      *)
(***************************************************************************)
EXTENDS Integers, Sequences, FiniteSets, TLC

(***************************************************************************)
(* Bounds                                                                  *)
(***************************************************************************)
\* longest delta payload (in bytes) that is enumerated
MaxLen == 2
\* highest delta priority that is enumerated
MaxPriority == 2

\* number of PushLog calls that can be in flight
NumCalls == 3
\* number of PushLog calls made when the stores and the network can fail
NumDeliveries == 2
\* db.MaxTxnRetries(), a configuration value of the datastore
MaxTxnRetries == 2

\* longest list of collection names handed to SetReplicator / DeleteReplicator
MaxNames == 2
MaxLookups == 3

\* the byte values payloads are built from
Byte == {0, 1}

VARIABLES
  \* ---- LWW register -------------------------------------------------
  store,      \* the datastore under the register: key -> [ok, buf]
  lwwRet,     \* what the last Merge returned
  lwwPre,     \* the datastore before the last Merge                (history)
  lwwDelta,   \* the delta handed to the last Merge                 (history)
  lwwBase,    \* (priority, value) the merges counted in lwwMax started from
  lwwMax,     \* greatest delta merged without error since lwwBase  (history)
  \* ---- server.PushLog -----------------------------------------------
  docs,            \* docQueue.docs: docKey -> its channel, 0 when absent
  closed,          \* the channels of docQueue that have been closed
  queuedChildren,  \* Peer.queuedChildren, the set of CIDs being processed
  blockstore,      \* the CIDs of the blocks in db.Blockstore()
  merged,          \* the CIDs whose delta is merged into the committed CRDT state
  topics,          \* server.topics: topic name -> "none", "pub" or "sub"
  pushLogEmitter,  \* whether server.pushLogEmitter is non-nil
  events,          \* number of EvtReceivedPushLog events emitted
  call,            \* the PushLog calls: position, request, locals, history
  faults,          \* whether the datastore, block store and pubsub may fail
  \* ---- replicator registry of Peer -----------------------------------
  replicators,     \* Peer.replicators: schema id -> set of peer ids
  peerstore,       \* the peer ids whose addresses the host's peerstore holds
  persisted,       \* the replicator records of the db: peer id -> schema ids
  repRet,          \* the error the last Set/DeleteReplicator returned
  repCall,         \* the last Set/DeleteReplicator call                 (history)
  removed,         \* the peers a successful DeleteReplicator removed from
                   \* the replicators of the schema of the events and no
                   \* successful SetReplicator added since             (history)
  delSeen,         \* removed, as it was when the broadcast loop took the
                   \* event it is handling, less the peers added since (history)
  \* ---- pubsub topics and the broadcast loop ---------------------------
  ps,              \* whether Peer.ps, the pubsub network, is non-nil
  bc,              \* Peer.handleBroadcastLoop: position, event, locals, history
  topicCall,       \* the server.addPubSubTopic call of the last step of
                   \* the topic table, if it was one                    (history)
  \* ---- construction, p2p collections and shutdown of the node ---------
  p2pcols,         \* the schema ids of the p2p collections the db holds
  existing,        \* the docKeys of the documents the db holds
  built,           \* NewPeer: position and result of newServer
  p2pCall,         \* Peer.AddP2PCollections: position, locals, result
  shut             \* Peer.Close: position, the steps done, the steps that failed

lwwVars == <<store, lwwRet, lwwPre, lwwDelta, lwwBase, lwwMax>>

pushVars == <<docs, closed, queuedChildren, blockstore, merged, topics,
              pushLogEmitter, events, call, faults>>

repVars == <<replicators, peerstore, persisted, repRet, repCall, removed, delSeen>>

bcastVars == <<ps, bc, topicCall>>

nodeVars == <<p2pcols, existing, built, p2pCall, shut>>

vars == <<lwwVars, pushVars, repVars, bcastVars, nodeVars>>

(***************************************************************************)
(* The peers, collections and documents of the replicator registry, and    *)
(* the registry before any call                                            *)
(***************************************************************************)

\* p.host.ID()
HostID == "self"
PeerIDs == {HostID, "p1"}
\* the multiaddresses handed to SetReplicator: one per peer id, and one
\* without a decodable /p2p part
Multiaddrs == PeerIDs \cup {"invalid"}

\* the collections of the db with their schema ids, in the order
\* GetAllCollections lists them
AllCollections == <<"users", "books">>
SchemaOf == [users |-> "S1", books |-> "S2"]
Schemas == {"S1", "S2"}
\* the documents of each collection
DocsOf == [users |-> {"d1", "d2"}, books |-> {"d3"}]
AllDocs == {"d1", "d2", "d3"}
\* the collection names a caller can pass, one of them unknown to the db
Names == {"users", "books", "nosuch"}

RECURSIVE NameLists(_)
NameLists(n) ==
  IF n = 0 THEN {<<>>}
  ELSE LET shorter == NameLists(n - 1)
       IN  shorter \cup {Append(l, x) : l \in {t \in shorter : Len(t) = n - 1}, x \in Names}

SeqRange(q) == {q[i] : i \in 1..Len(q)}

\* the lists of collection names a caller can pass: existing collections,
\* followed or not by an unknown name (an unknown name fails the call before
\* anything changes, wherever it stands in the list)
CollectionNames ==
  {l \in NameLists(MaxNames) : \A i \in 1..(Len(l) - 1) : l[i] \in DOMAIN SchemaOf}

NoCall ==
  [op |-> "none",
   pid |-> "none",           \* the peer of the address or id that was passed
   reached |-> FALSE,        \* no lookup failed up to the check for duplicates
   hadPair |-> FALSE,        \* the peer was a replicator of a named collection
   persistCalled |-> FALSE,  \* db.SetReplicator / db.DeleteReplicator was called
   changed |-> FALSE,        \* replicators, peerstore or persisted changed
   mapChanged |-> FALSE,     \* replicators changed
   hadAddrs |-> FALSE,       \* the peerstore held addresses of the peer
   clearCalled |-> FALSE,    \* Peerstore().ClearAddrs was called
   docs |-> {},              \* the documents of the collections worked on
   unreadable |-> {},        \* the documents whose key, heads or block failed to load
   pushed |-> {}]            \* the documents whose heads were pushed to the peer

InitRepIdle ==
  /\ replicators = [sch \in Schemas |-> {}]
  /\ peerstore = {}
  /\ persisted = [q \in PeerIDs |-> {}]
  /\ repRet = "none"
  /\ repCall = NoCall
  /\ removed = {}
  /\ delSeen = {}

(***************************************************************************)
(* The broadcast loop before its first event                               *)
(***************************************************************************)

\* the history of one server.publishLog call, recursion included
NoPublish ==
  [topic |-> "", absent |-> FALSE, lookups |-> 0, adds |-> 0, addSub |-> FALSE,
   publishes |-> 0, removed |-> FALSE, ret |-> "none"]

\* pc is the statement the loop is at; docKey, schema and priority are the
\* event it took, rest the calls its handler has still to make, topic,
\* subscribe and reps locals of the handler; the other fields are the history
\* of the event, kept until the step after the handler returned (pushed:
\* pushLogToReplicators ran; listed: the peers ListPeers reported; snap and
\* live: the replicator set when it was read and when it was iterated)
IdleLoop ==
  [pc |-> "recv", docKey |-> "", schema |-> "", priority |-> 0, rest |-> <<>>,
   topic |-> "", subscribe |-> FALSE, reps |-> {},
   schemaSub |-> FALSE, registered |-> "none", pubs |-> <<>>, pushes |-> {},
   pushed |-> FALSE, listed |-> {}, live |-> {}, snap |-> {},
   pl |-> NoPublish, ret |-> "none"]

NoTopicCall == [topic |-> "", subscribe |-> FALSE, pre |-> "none", ret |-> "none"]

\* NewPeer has not been called
NotBuilt ==
  [pc |-> "new", colMap |-> {}, keys |-> {}, ret |-> "none",
   worker |-> "none"]     \* the sendJobWorker goroutine: "none", "running", "exited"

\* no AddP2PCollections call has been made
NoP2PCall ==
  [pc |-> "idle", added |-> FALSE, keys |-> {}, ret |-> "none",
   op |-> "none",         \* "add" or "remove"
   cols |-> <<>>,         \* the argument collections
   addedTopics |-> <<>>,  \* addedTopics when the topic loop ended
   \* history of the call
   at |-> 0,              \* the position of the topic loop that failed, 0 for none
   pre |-> {}]            \* the collection topics subscribed when the call was made

\* Close has not been called
NotClosing ==
  [pc |-> "open", steps |-> <<>>, errs |-> {},
   cancelled |-> FALSE]   \* the context NewPeer was given is cancelled

\* the node is built and open, with no p2p collection
InitNodeIdle ==
  /\ p2pcols = {}
  /\ existing = {"d1", "d2"}
  /\ built = [NotBuilt EXCEPT !.pc = "built", !.ret = "nil"]
  /\ p2pCall = NoP2PCall
  /\ shut = NotClosing

InitBcastIdle ==
  /\ ps = TRUE
  /\ bc = IdleLoop
  /\ topicCall = NoTopicCall

(***************************************************************************)
(* LWW register: core/crdt/lwwreg.go                                       *)
(***************************************************************************)

\* the byte strings of length at most MaxLen
RECURSIVE SeqsUpTo(_)
SeqsUpTo(n) ==
  IF n = 0 THEN {<<>>}
  ELSE LET shorter == SeqsUpTo(n - 1)
       IN  shorter \cup {Append(s, b) : s \in {t \in shorter : Len(t) = n - 1}, b \in Byte}

Bytes == SeqsUpTo(MaxLen)

\* client.LWW_REGISTER, the CRDT type marker that prefixes a stored value
LWW_REGISTER == 1

\* base.DeletedObjectMarker / base.ObjectMarker, the primary-key markers
DeletedObjectMarker == "DeletedObjectMarker"
ObjectMarker == "ObjectMarker"

\* the datastore keys of one register: priority, value, value of a deleted
\* document, primary key marker of the document
Keys == {"p", "v", "dv", "pk"}

\* result of a datastore Get that found nothing (ds.ErrNotFound, nil buffer)
NotFound == [ok |-> FALSE, buf |-> <<>>]
Found(b) == [ok |-> TRUE, buf |-> b]

\* a comparison that orders by length before it orders by content
bytesCompareByLen(a, b) ==
  IF Len(a) < Len(b) THEN -1
  ELSE IF Len(a) > Len(b) THEN 1
  ELSE IF a = b THEN 0
  ELSE IF \E i \in 1..Len(a) : a[i] < b[i] /\ \A j \in 1..(i - 1) : a[j] = b[j] THEN -1
  ELSE 1

\* bytes.Compare: -1, 0, 1 for a < b, a = b, a > b in lexicographic order
RECURSIVE bytesCompare(_, _)
bytesCompare(a, b) ==
  IF a = <<>> /\ b = <<>> THEN 0
  ELSE IF a = <<>> THEN -1
  ELSE IF b = <<>> THEN 1
  ELSE IF Head(a) < Head(b) THEN -1
  ELSE IF Head(a) > Head(b) THEN 1
  ELSE bytesCompare(Tail(a), Tail(b))

\* baseCRDT.getPriority: the stored priority, 0 when none is stored
getPriority(st) == IF st["p"].ok THEN st["p"].buf[1] ELSE 0

\* baseCRDT.setPriority: record the priority
setPriority(st, priority) == [st EXCEPT !["p"] = Found(<<priority>>)]

\* the value key setValue works on: the deleted-flag variant when the
\* primary key marker of the document is the deleted sentinel
valueKey(st) == IF st["pk"].buf = <<DeletedObjectMarker>> THEN "dv" ELSE "v"

\* the places where the datastore can fail inside setValue
FailPoints == {"none", "getPriority", "getMarker", "put", "setPriority"}

\* a comparison that lets the stored value win every tie
lwwIgnoresTies(st, val, priority) ==
  LET curPrio == getPriority(st)
  IN  priority <= curPrio

\* a comparison that looks at the values only
lwwIgnoresByValue(st, val, priority) ==
  LET got      == st[valueKey(st)].buf
      curValue == IF Len(got) > 0 THEN Tail(got) ELSE got
  IN  bytesCompare(curValue, val) >= 0

\* the comparison of setValue that decides between ignore and overwrite
lwwIgnores(st, val, priority) ==
  LET curPrio  == getPriority(st)
      got      == st[valueKey(st)].buf
      curValue == IF Len(got) > 0 THEN Tail(got) ELSE got
  IN  \/ priority < curPrio
      \/ /\ priority = curPrio
         /\ bytesCompare(curValue, val) >= 0

\* LWWRegister.setValue: [st |-> datastore afterwards, err |-> returned error]
setValue(st, val, priority, fail) ==
  IF fail = "getPriority" THEN [st |-> st, err |-> "ErrFailedToGetPriority"]
  ELSE IF fail = "getMarker" THEN [st |-> st, err |-> "ErrDatastore"]
  ELSE IF lwwIgnores(st, val, priority) THEN [st |-> st, err |-> "nil"]
  ELSE IF fail = "put" THEN [st |-> st, err |-> "ErrFailedToStoreValue"]
  ELSE LET put == [st EXCEPT ![valueKey(st)] = Found(<<LWW_REGISTER>> \o val)]
       IN  IF fail = "setPriority" THEN [st |-> put, err |-> "ErrDatastore"]
           ELSE [st |-> setPriority(put, priority), err |-> "nil"]

\* LWWRegister.Value: the stored bytes without the marker byte
Value(st) == IF st["v"].ok THEN Found(Tail(st["v"].buf)) ELSE NotFound

\* the deltas handed to Merge: an LWWRegDelta, or a delta of another CRDT type
Deltas ==
  [lww : {TRUE}, Priority : 0..MaxPriority, Data : Bytes]
    \cup {[lww |-> FALSE, Priority |-> 1, Data |-> <<>>]}

\* (priority, value) of the register as setValue reads them
Stored(st) ==
  LET got == st[valueKey(st)].buf
  IN  [Priority |-> getPriority(st),
       Data     |-> IF Len(got) > 0 THEN Tail(got) ELSE got]

\* a comes strictly before b in lexicographic byte order
LexLess(a, b) ==
  \E i \in 1..Len(b) :
    /\ \A j \in 1..(i - 1) : j <= Len(a) /\ a[j] = b[j]
    /\ (i > Len(a) \/ a[i] < b[i])

\* the order of the LWW rule: priority first, then the payload bytes
PairLeq(a, b) ==
  \/ a.Priority < b.Priority
  \/ a.Priority = b.Priority /\ (a.Data = b.Data \/ LexLess(a.Data, b.Data))

PairMax(a, b) == IF PairLeq(a, b) THEN b ELSE a

NoDelta == [Priority |-> -1, Data |-> <<>>]

InitRegister ==
  /\ \E deleted \in BOOLEAN :
       store = [k \in Keys |->
                  IF k = "pk"
                  THEN Found(<<IF deleted THEN DeletedObjectMarker ELSE ObjectMarker>>)
                  ELSE NotFound]
  /\ lwwRet = "none"
  /\ lwwPre = store
  /\ lwwDelta = NoDelta
  /\ lwwBase = Stored(store)
  /\ lwwMax = NoDelta

InitLWWIdle ==
  /\ store = [k \in Keys |-> IF k = "pk" THEN Found(<<ObjectMarker>>) ELSE NotFound]
  /\ lwwRet = "none"
  /\ lwwPre = store
  /\ lwwDelta = NoDelta
  /\ lwwBase = Stored(store)
  /\ lwwMax = NoDelta

\* LWWRegister.Merge(ctx, delta, id)
Merge(delta, fail) ==
  LET r == IF delta.lww
           THEN setValue(store, delta.Data, delta.Priority, fail)
           ELSE [st |-> store, err |-> "ErrMismatchedMergeType"]
  IN  /\ store' = r.st
      /\ lwwRet' = r.err

\* one Merge call, remembering the call and the datastore it found
MergeCall ==
  \E delta \in Deltas, fail \in FailPoints :
    /\ Merge(delta, fail)
    /\ lwwPre' = store
    /\ lwwDelta' = [Priority |-> delta.Priority, Data |-> delta.Data]
    /\ UNCHANGED <<lwwBase, lwwMax>>

NextLWW == MergeCall /\ UNCHANGED <<pushVars, repVars, bcastVars, nodeVars>>


\* one Merge call on a datastore that does not fail, remembering the greatest
\* delta merged since the stored state lwwBase; a Merge that returns an error
\* (a delta of another type) is no merge
MergeCount ==
  \E delta \in Deltas :
    LET d == [Priority |-> delta.Priority, Data |-> delta.Data]
    IN  /\ Merge(delta, "none")
        /\ lwwMax' = IF lwwRet' # "nil" THEN lwwMax
                     ELSE IF lwwMax = NoDelta THEN d
                     ELSE PairMax(lwwMax, d)
        /\ UNCHANGED <<lwwBase, lwwPre, lwwDelta>>

\* the merges counted from here on start from the present stored state
Restart ==
  /\ lwwMax # NoDelta
  /\ lwwMax' = NoDelta
  /\ lwwBase' = Stored(store)
  /\ UNCHANGED <<store, lwwRet, lwwPre, lwwDelta>>

NextConv ==
  \/ MergeCount /\ UNCHANGED <<pushVars, repVars, bcastVars, nodeVars>>
  \/ Restart /\ UNCHANGED <<pushVars, repVars, bcastVars, nodeVars>>



(***************************************************************************)
(* Inbound push handler: net/server.go                                     *)
(***************************************************************************)

Calls == 1..NumCalls
DocKeys == {"d1", "d2"}
Cids == {"x", "y"}
\* the schema id of the collection the documents belong to
SchemaID == SchemaOf["users"]
\* the schema of the documents the broadcast loop gets events of
EventSchema == SchemaOf["users"]
\* the schema ids AddP2PCollections and RemoveP2PCollections are called with:
\* those of the two collections and that of a third one without documents
CollectionIDs == Schemas \cup {"S3"}
TopicNames == DocKeys \cup {SchemaID, EventSchema} \cup CollectionIDs

\* a PushLog call that has not been made yet
IdleCall ==
  [pc |-> "idle", docKey |-> "d1", cid |-> "x",
   done |-> 0,            \* add: the channel read from dq.docs
   retry |-> 0,           \* the loop variable of the retry loop
   txnBlock |-> FALSE,    \* the open transaction holds the block
   txnMerge |-> FALSE,    \* the open transaction holds the merged delta
   ret |-> "none",        \* the error PushLog returned, "nil" for success
   \* history of the call
   hadBlock |-> FALSE,    \* the block was in the block store when add returned
   opened |-> 0,          \* transactions opened
   commits |-> 0,         \* Commit calls made
   conflicts |-> 0,       \* Commit calls that ended in a write conflict
   committed |-> FALSE,   \* a Commit succeeded
   stored |-> FALSE,      \* the committed transaction put the block
   mergedDelta |-> FALSE, \* the committed transaction merged the delta
   procErr |-> FALSE,     \* a processLog of the call returned an error
   handled |-> FALSE,     \* handleChildBlocks ran for the call
   emitted |-> 0]         \* EvtReceivedPushLog events emitted for the call

\* the outcomes of an operation that can fail: only success without faults
Fails == IF faults THEN {FALSE, TRUE} ELSE {FALSE}

InitPushIdle ==
  /\ faults = FALSE
  /\ docs = [d \in DocKeys |-> 0]
  /\ closed = {}
  /\ queuedChildren = {}
  /\ blockstore = {}
  /\ merged = {}
  /\ topics = [t \in TopicNames |-> "none"]
  /\ pushLogEmitter = TRUE
  /\ events = 0
  /\ call = [c \in Calls |-> IdleCall]

\* newServer: the docQueue and the visit set are empty; the collection topic
\* is subscribed when the collection is in the persisted p2p-collection set;
\* the push log emitter is nil when the event bus refused to create it
InitServer ==
  /\ docs = [d \in DocKeys |-> 0]
  /\ closed = {}
  /\ queuedChildren = {}
  /\ blockstore = {}
  /\ merged = {}
  /\ \E sub \in BOOLEAN :
       topics = [t \in TopicNames |-> IF t = SchemaID /\ sub THEN "sub" ELSE "none"]
  /\ events = 0

\* NumDeliveries calls are made; everything a call relies on can fail
InitPush ==
  /\ InitLWWIdle
  /\ InitRepIdle
  /\ InitNodeIdle
  /\ InitBcastIdle
  /\ InitServer
  /\ pushLogEmitter \in BOOLEAN
  /\ faults = TRUE
  /\ call = [c \in Calls |->
               IF c <= NumDeliveries THEN IdleCall ELSE [IdleCall EXCEPT !.pc = "unused"]]

\* NumCalls calls are made; nothing fails
InitQueue ==
  /\ InitLWWIdle
  /\ InitRepIdle
  /\ InitNodeIdle
  /\ InitBcastIdle
  /\ InitServer
  /\ pushLogEmitter = TRUE
  /\ faults = FALSE
  /\ call = [c \in Calls |-> IdleCall]

\* the positions of PushLog between the return of docQueue.add and the
\* docQueue.done of the deferred function
InCritical ==
  {"visit", "has", "attempt", "commit", "closejob", "subscribe", "addtopic", "remove",
   "done"}

\* PushLog up to docQueue.add: the peer id is read from the context
PushLogStartOf(c, docKeys, cids) ==
  /\ call[c].pc = "idle"
  /\ \E dk \in docKeys, cid \in cids, ctxErr \in Fails :
       call' = [call EXCEPT ![c] =
                  IF ctxErr
                  THEN [@ EXCEPT !.pc = "returned", !.ret = "ErrPeerID"]
                  ELSE [@ EXCEPT !.pc = "add", !.docKey = dk, !.cid = cid]]
  /\ UNCHANGED <<docs, closed, queuedChildren, blockstore, merged, topics,
                 pushLogEmitter, events, faults>>

PushLogStart(c) == PushLogStartOf(c, DocKeys, Cids)

\* an add that takes the docKey whether or not it is in the queue
addAcquiresAlways(docKey) == TRUE

\* docQueue.add: the docKey is not in the queue (!ok)
addAcquires(docKey) == docs[docKey] = 0

\* docQueue.add, the part under dq.mu: take the docKey, or read its channel
docQueueAdd(c) ==
  /\ call[c].pc = "add"
  /\ IF addAcquires(call[c].docKey)
     THEN /\ docs' = [docs EXCEPT ![call[c].docKey] = c]
          /\ call' = [call EXCEPT ![c].pc = "visit", ![c].done = 0,
                                  ![c].hadBlock = call[c].cid \in blockstore]
     ELSE /\ call' = [call EXCEPT ![c].pc = "wait", ![c].done = docs[call[c].docKey]]
          /\ UNCHANGED docs
  /\ UNCHANGED <<closed, queuedChildren, blockstore, merged, topics,
                 pushLogEmitter, events, faults>>

\* docQueue.add: <-done returns once the channel is closed, add is called again
docQueueWait(c) ==
  /\ call[c].pc = "wait"
  /\ call[c].done \in closed
  /\ call' = [call EXCEPT ![c].pc = "add"]
  /\ UNCHANGED <<docs, closed, queuedChildren, blockstore, merged, topics,
                 pushLogEmitter, events, faults>>

\* cidSafeSet.Visit: true iff the cid was not in the set; it is in it afterwards
Visit(cid) == cid \notin queuedChildren

\* a return after a refused Visit that runs the deferred Remove
visitRefusedExitRemoves == "remove"

\* the return after a refused Visit comes before the defer of Remove: of the
\* deferred calls only the one registered after docQueue.add runs
visitRefusedExit == "done"

\* PushLog: make sure we are not processing twice
PushLogVisit(c) ==
  /\ call[c].pc = "visit"
  /\ IF Visit(call[c].cid)
     THEN /\ queuedChildren' = queuedChildren \cup {call[c].cid}
          /\ call' = [call EXCEPT ![c].pc = "has"]
     ELSE /\ call' = [call EXCEPT ![c].pc = visitRefusedExit, ![c].ret = "nil"]
          /\ UNCHANGED queuedChildren
  /\ UNCHANGED <<docs, closed, blockstore, merged, topics, pushLogEmitter, events, faults>>

\* a check that never finds the block
blockExistsNever(cid) == FALSE

\* Blockstore().Has(cid)
blockExists(cid) == cid \in blockstore

\* PushLog: check if we already have this block
PushLogHas(c) ==
  /\ call[c].pc = "has"
  /\ \E hasErr \in Fails :
       call' = [call EXCEPT ![c] =
                  IF hasErr THEN [@ EXCEPT !.pc = "remove", !.ret = "ErrHas"]
                  ELSE IF blockExists(call[c].cid)
                       THEN [@ EXCEPT !.pc = "remove", !.ret = "nil"]
                       ELSE [@ EXCEPT !.pc = "attempt", !.retry = 0]]
  /\ UNCHANGED <<docs, closed, queuedChildren, blockstore, merged, topics,
                 pushLogEmitter, events, faults>>

\* what can happen in one pass of the retry loop before Commit: the errors
\* that return, and how processLog ends
AttemptOutcomes ==
  {"ErrNewTxn", "ErrCollection", "ErrDecodeBlock",
   "processed", "ErrStoreBlock", "ErrDecodeDelta", "ErrMerge"}

\* Peer.processLog: store the block, decode its delta, merge it
processLog(outcome) ==
  [block |-> outcome \in {"processed", "ErrDecodeDelta", "ErrMerge"},
   merge |-> outcome = "processed",
   err   |-> outcome # "processed"]

\* the condition of the retry loop
loopContinues(retry) == retry < MaxTxnRetries

\* PushLog: one pass of the retry loop up to Commit
PushLogAttempt(c) ==
  /\ call[c].pc = "attempt"
  /\ IF ~loopContinues(call[c].retry)
     THEN call' = [call EXCEPT ![c].pc = "remove", ![c].ret = "ErrMaxTxnRetries"]
     ELSE \E outcome \in (IF faults THEN AttemptOutcomes ELSE {"processed"}) :
            call' = [call EXCEPT ![c] =
              IF outcome = "ErrNewTxn"
              THEN [@ EXCEPT !.pc = "remove", !.ret = outcome]
              ELSE IF outcome \in {"ErrCollection", "ErrDecodeBlock"}
              THEN [@ EXCEPT !.pc = "remove", !.ret = outcome,
                             !.opened = @ + 1,
                             !.txnBlock = FALSE, !.txnMerge = FALSE]
              ELSE \* the error of processLog is logged, PushLog goes on
                   [@ EXCEPT !.pc = "commit",
                             !.opened = @ + 1,
                             !.txnBlock = processLog(outcome).block,
                             !.txnMerge = processLog(outcome).merge,
                             !.procErr = @ \/ processLog(outcome).err]]
  /\ UNCHANGED <<docs, closed, queuedChildren, blockstore, merged, topics,
                 pushLogEmitter, events, faults>>

\* a retry on every error of Commit
commitRetriesAny(outcome) == outcome # "nil"

\* errors.Is(txnErr, badger.ErrTxnConflict)
commitRetries(outcome) == outcome = "ErrTxnConflict"

\* PushLog: txn.Commit and what follows from its result
PushLogCommit(c) ==
  /\ call[c].pc = "commit"
  /\ \E outcome \in (IF faults THEN {"nil", "ErrTxnConflict", "ErrCommit"} ELSE {"nil"}) :
       IF outcome = "nil"
       THEN /\ blockstore' = IF call[c].txnBlock
                             THEN blockstore \cup {call[c].cid} ELSE blockstore
            /\ merged' = IF call[c].txnMerge
                         THEN merged \cup {call[c].cid} ELSE merged
            /\ call' = [call EXCEPT ![c].pc = "subscribe",
                                    ![c].commits = @ + 1,
                                    ![c].committed = TRUE,
                                    ![c].stored = call[c].txnBlock,
                                    ![c].mergedDelta = call[c].txnMerge]
       ELSE /\ call' = [call EXCEPT ![c] =
                 IF commitRetries(outcome)
                 THEN [@ EXCEPT !.pc = "attempt", !.retry = @ + 1,
                                !.commits = @ + 1,
                                !.conflicts = IF outcome = "ErrTxnConflict"
                                              THEN @ + 1 ELSE @]
                 ELSE [@ EXCEPT !.pc = "remove", !.ret = outcome,
                                !.commits = @ + 1,
                                !.conflicts = IF outcome = "ErrTxnConflict"
                                              THEN @ + 1 ELSE @]]
            /\ UNCHANGED <<blockstore, merged>>
  /\ UNCHANGED <<docs, closed, queuedChildren, topics, pushLogEmitter, events, faults>>

\* server.hasPubSubTopic
hasPubSubTopic(topic) == topics[topic] # "none"

\* PushLog after the commit: the docKey topic is wanted unless the
\* collection topic is there; hasPubSubTopic takes and releases s.mu
PushLogSubscribe(c) ==
  /\ call[c].pc = "subscribe"
  /\ call' = [call EXCEPT ![c] =
                IF hasPubSubTopic(SchemaID)
                THEN [@ EXCEPT !.pc = "remove", !.ret = "nil"]
                ELSE [@ EXCEPT !.pc = "addtopic"]]
  /\ UNCHANGED <<docs, closed, queuedChildren, blockstore, merged, topics,
                 pushLogEmitter, events, faults>>

\* PushLog after the commit: addPubSubTopic(docKey, true), which takes s.mu
\* again
PushLogAddTopic(c) ==
  /\ call[c].pc = "addtopic"
  /\ \E addErr \in Fails :
       IF addErr
       THEN /\ call' = [call EXCEPT ![c].pc = "remove", ![c].ret = "ErrAddTopic"]
            /\ UNCHANGED topics
       ELSE /\ call' = [call EXCEPT ![c].pc = "remove", ![c].ret = "nil"]
            /\ topics' = [topics EXCEPT ![call[c].docKey] = "sub"]
  /\ UNCHANGED <<docs, closed, queuedChildren, blockstore, merged,
                 pushLogEmitter, events, faults>>

\* the deferred queuedChildren.Remove(cid)
PushLogRemove(c) ==
  /\ call[c].pc = "remove"
  /\ queuedChildren' = queuedChildren \ {call[c].cid}
  /\ call' = [call EXCEPT ![c].pc = "done"]
  /\ UNCHANGED <<docs, closed, blockstore, merged, topics, pushLogEmitter, events, faults>>

\* the deferred function of PushLog emits when there is an emitter
emits == pushLogEmitter

\* a done that deletes the entry and leaves its channel open
doneClosesNothing(chans, done) == chans

\* docQueue.done: close(done)
doneCloses(chans, done) == chans \cup {done}

\* the deferred function of PushLog: docQueue.done, then the event
PushLogDone(c) ==
  /\ call[c].pc = "done"
  /\ IF docs[call[c].docKey] # 0
     THEN /\ closed' = doneCloses(closed, docs[call[c].docKey])
          /\ docs' = [docs EXCEPT ![call[c].docKey] = 0]
     ELSE UNCHANGED <<docs, closed>>
  /\ events' = IF emits THEN events + 1 ELSE events
  /\ call' = [call EXCEPT ![c].pc = "returned",
                          ![c].retry = 0, ![c].txnBlock = FALSE, ![c].txnMerge = FALSE,
                          ![c].emitted = IF emits THEN @ + 1 ELSE @]
  /\ UNCHANGED <<queuedChildren, blockstore, merged, topics, pushLogEmitter, faults>>

NextPush ==
  \/ \E c \in Calls : PushLogStart(c) /\ UNCHANGED <<lwwVars, repVars, bcastVars, nodeVars>>
  \/ \E c \in Calls : docQueueAdd(c) /\ UNCHANGED <<lwwVars, repVars, bcastVars, nodeVars>>
  \/ \E c \in Calls : docQueueWait(c) /\ UNCHANGED <<lwwVars, repVars, bcastVars, nodeVars>>
  \/ \E c \in Calls : PushLogVisit(c) /\ UNCHANGED <<lwwVars, repVars, bcastVars, nodeVars>>
  \/ \E c \in Calls : PushLogHas(c) /\ UNCHANGED <<lwwVars, repVars, bcastVars, nodeVars>>
  \/ \E c \in Calls : PushLogAttempt(c) /\ UNCHANGED <<lwwVars, repVars, bcastVars, nodeVars>>
  \/ \E c \in Calls : PushLogCommit(c) /\ UNCHANGED <<lwwVars, repVars, bcastVars, nodeVars>>
  \/ \E c \in Calls : PushLogSubscribe(c) /\ UNCHANGED <<lwwVars, repVars, bcastVars, nodeVars>>
  \/ \E c \in Calls : PushLogAddTopic(c) /\ UNCHANGED <<lwwVars, repVars, bcastVars, nodeVars>>
  \/ \E c \in Calls : PushLogRemove(c) /\ UNCHANGED <<lwwVars, repVars, bcastVars, nodeVars>>
  \/ \E c \in Calls : PushLogDone(c) /\ UNCHANGED <<lwwVars, repVars, bcastVars, nodeVars>>

SpecPush == InitPush /\ [][NextPush]_vars

SpecQueue == InitQueue /\ [][NextPush]_vars

\* a goroutine that holds a docKey calls docQueue.add for it again
ReAdd(c) ==
  /\ call[c].pc = "visit"
  /\ call' = [call EXCEPT ![c].pc = "readd"]
  /\ UNCHANGED <<docs, closed, queuedChildren, blockstore, merged, topics,
                 pushLogEmitter, events, faults>>

\* docQueue.add of the second call, the part under dq.mu; the channel it
\* makes is another one than the channel of the first call
ReAddLookup(c) ==
  /\ call[c].pc = "readd"
  /\ IF addAcquires(call[c].docKey)
     THEN /\ docs' = [docs EXCEPT ![call[c].docKey] = c + NumCalls]
          /\ call' = [call EXCEPT ![c].pc = "again", ![c].done = 0]
     ELSE /\ call' = [call EXCEPT ![c].pc = "rewait", ![c].done = docs[call[c].docKey]]
          /\ UNCHANGED docs
  /\ UNCHANGED <<closed, queuedChildren, blockstore, merged, topics,
                 pushLogEmitter, events, faults>>

\* docQueue.add of the second call: <-done, then add is called again
ReAddWait(c) ==
  /\ call[c].pc = "rewait"
  /\ call[c].done \in closed
  /\ call' = [call EXCEPT ![c].pc = "readd"]
  /\ UNCHANGED <<docs, closed, queuedChildren, blockstore, merged, topics,
                 pushLogEmitter, events, faults>>

\* docQueue.done called by a goroutine other than the blocked holders
OtherDone(docKey) ==
  /\ IF docs[docKey] # 0
     THEN /\ closed' = doneCloses(closed, docs[docKey])
          /\ docs' = [docs EXCEPT ![docKey] = 0]
     ELSE UNCHANGED <<docs, closed>>
  /\ UNCHANGED <<call, queuedChildren, blockstore, merged, topics,
                 pushLogEmitter, events, faults>>

\* callers that take a docKey and ask for it again without calling done
NextReentrant ==
  \/ \E c \in Calls : PushLogStart(c) /\ UNCHANGED <<lwwVars, repVars, bcastVars, nodeVars>>
  \/ \E c \in Calls : docQueueAdd(c) /\ UNCHANGED <<lwwVars, repVars, bcastVars, nodeVars>>
  \/ \E c \in Calls : docQueueWait(c) /\ UNCHANGED <<lwwVars, repVars, bcastVars, nodeVars>>
  \/ \E c \in Calls : ReAdd(c) /\ UNCHANGED <<lwwVars, repVars, bcastVars, nodeVars>>
  \/ \E c \in Calls : ReAddLookup(c) /\ UNCHANGED <<lwwVars, repVars, bcastVars, nodeVars>>
  \/ \E c \in Calls : ReAddWait(c) /\ UNCHANGED <<lwwVars, repVars, bcastVars, nodeVars>>
  \/ \E dk \in DocKeys : OtherDone(dk) /\ UNCHANGED <<lwwVars, repVars, bcastVars, nodeVars>>

SpecReentrant == InitQueue /\ [][NextReentrant]_vars

\* the RPC server calls PushLog for the next request: the goroutine of a call
\* that returned serves a new call; the channel the old call made is garbage
\* once no add waits for it
PushLogAgain(c) ==
  /\ call[c].pc = "returned"
  /\ \A w \in Calls : call[w].pc = "wait" => call[w].done # c
  /\ call' = [call EXCEPT ![c] = IdleCall]
  /\ closed' = closed \ {c}
  /\ UNCHANGED <<docs, queuedChildren, blockstore, merged, topics,
                 pushLogEmitter, events, faults>>

\* the steps of one PushLog call after the request has arrived
CallStep(c) ==
  /\ \/ docQueueAdd(c)
     \/ docQueueWait(c)
     \/ PushLogVisit(c)
     \/ PushLogHas(c)
     \/ PushLogAttempt(c)
     \/ PushLogCommit(c)
     \/ PushLogSubscribe(c)
     \/ PushLogAddTopic(c)
     \/ PushLogRemove(c)
     \/ PushLogDone(c)
  /\ UNCHANGED <<lwwVars, repVars, bcastVars, nodeVars>>

\* requests for one docKey keep arriving; there is no emitter, so that no
\* event is counted
InitQueueFair ==
  /\ InitLWWIdle
  /\ InitRepIdle
  /\ InitNodeIdle
  /\ InitBcastIdle
  /\ InitServer
  /\ pushLogEmitter = FALSE
  /\ faults = FALSE
  /\ call = [c \in Calls |-> IdleCall]

\* the docKey every request of the fair specification is for
FairDocKey == "d1"

NextQueueFair ==
  \/ \E c \in Calls : PushLogStartOf(c, {FairDocKey}, Cids)
                         /\ UNCHANGED <<lwwVars, repVars, bcastVars, nodeVars>>
  \/ \E c \in Calls : CallStep(c)
  \/ \E c \in Calls : PushLogAgain(c) /\ UNCHANGED <<lwwVars, repVars, bcastVars, nodeVars>>

\* the Go scheduler runs every goroutine that can run: a call that can take
\* a step takes one; the arrival of requests is not forced
SpecQueueFair ==
  /\ InitQueueFair
  /\ [][NextQueueFair]_vars
  /\ \A c \in Calls : WF_vars(CallStep(c))

\* the specifications of the LWW register
InitLWW == InitRegister /\ InitPushIdle /\ InitRepIdle /\ InitBcastIdle /\ InitNodeIdle

SpecLWW == InitLWW /\ [][NextLWW]_vars

SpecConv == InitLWW /\ [][NextConv]_vars

(***************************************************************************)
(* Replicator registry: net/peer.go                                        *)
(***************************************************************************)

\* setReplicator / deleteReplicator "verify collections": the collections to
\* work on, all of them for an empty list of names
verifyCollections(names) ==
  IF names = <<>> THEN [cols |-> AllCollections, err |-> FALSE]
  ELSE IF \E i \in 1..Len(names) : names[i] \notin DOMAIN SchemaOf
       THEN [cols |-> <<>>, err |-> TRUE]
       ELSE [cols |-> names, err |-> FALSE]

\* a check that takes no peer for the node itself
isSelfNever(pid) == FALSE

\* setReplicator: pid == p.host.ID()
isSelf(pid) == pid = HostID

\* a check that finds no replicator
replicatorExistsNever(reps, schema, pid) == FALSE

\* setReplicator: the peer is in the replicator set of the schema
replicatorExists(reps, schema, pid) == pid \in reps[schema]

\* setReplicator "make sure we're not duplicating things": add the peer to the
\* set of each collection in turn, stop at the first set that holds it
RECURSIVE addReplicators(_, _, _)
addReplicators(reps, cols, pid) ==
  IF cols = <<>> THEN [reps |-> reps, dup |-> FALSE]
  ELSE LET schema == SchemaOf[Head(cols)]
       IN  IF replicatorExists(reps, schema, pid)
           THEN [reps |-> reps, dup |-> TRUE]
           ELSE addReplicators([reps EXCEPT ![schema] = @ \cup {pid}], Tail(cols), pid)

\* db.SetReplicator: the record of the peer gains the schemas
dbSetReplicator(recs, pid, schemas) == [recs EXCEPT ![pid] = @ \cup schemas]

\* db.DeleteReplicator: the record of the peer loses the schemas
dbDeleteReplicator(recs, pid, schemas) == [recs EXCEPT ![pid] = @ \ schemas]

\* the sets of documents whose key, heads or block cannot be read while their
\* heads are pushed: none, or one document
UnreadableSets == {{}} \cup {{d} : d \in AllDocs}

\* where SetReplicator can fail for reasons outside the peer: the call that
\* fails, for the head pushes the collection at which it fails, and the
\* documents that cannot be read
SetFailPoints ==
  [at : {"none", "NewTxn", "GetAllCollections", "persist", "Commit"},
   col : {1}, bad : {{}}]
    \cup [at : {"pushTxn", "GetAllDocKeys"}, col : 1..MaxNames, bad : {{}}]
    \cup [at : {"none"}, col : {1}, bad : UnreadableSets]

\* Peer.pushToReplicator: the heads of every document whose key, heads and
\* block can be read are pushed; the other documents are logged and skipped
pushToReplicator(col, bad) == DocsOf[col] \ bad

\* a push loop that stops after the first collection
RECURSIVE pushHeadsFirstOnly(_, _, _, _)
pushHeadsFirstOnly(cols, i, fail, pushed) ==
  IF i > Len(cols) \/ i > 1 THEN [pushed |-> pushed, err |-> "nil"]
  ELSE pushHeadsFirstOnly(cols, i + 1, fail,
                          pushed \cup pushToReplicator(cols[i], fail.bad))

\* setReplicator, the loop over the collections after the persist: a read
\* only transaction and the docKeys of the collection, then pushToReplicator
RECURSIVE pushHeads(_, _, _, _)
pushHeads(cols, i, fail, pushed) ==
  IF i > Len(cols) THEN [pushed |-> pushed, err |-> "nil"]
  ELSE IF fail.at = "pushTxn" /\ fail.col = i
    THEN [pushed |-> pushed, err |-> "ErrNewTxn"]
  ELSE IF fail.at = "GetAllDocKeys" /\ fail.col = i
    THEN [pushed |-> pushed, err |-> "ErrGetAllDocKeys"]
  ELSE pushHeads(cols, i + 1, fail, pushed \cup pushToReplicator(cols[i], fail.bad))

\* Peer.SetReplicator with Peer.setReplicator: the state it leaves and what
\* it returns
setReplicatorResult(paddr, names, fail) ==
  LET st0 == [replicators |-> replicators, peerstore |-> peerstore,
              persisted |-> persisted, persistCalled |-> FALSE,
              cleared |-> FALSE, pushed |-> {}]
      v   == verifyCollections(names)
  IN  IF fail.at = "NewTxn" THEN st0 @@ [err |-> "ErrNewTxn"]
      ELSE IF names = <<>> /\ fail.at = "GetAllCollections"
        THEN st0 @@ [err |-> "ErrGetCollections"]
      ELSE IF v.err THEN st0 @@ [err |-> "ErrGetCollection"]
      ELSE IF paddr = "invalid" THEN st0 @@ [err |-> "ErrInvalidAddr"]
      ELSE IF isSelf(paddr) THEN st0 @@ [err |-> "ErrSelfReplicator"]
      ELSE
        LET addrs == peerstore \cup {paddr}
            added == addReplicators(replicators, v.cols, paddr)
            st1   == [st0 EXCEPT !.peerstore = addrs, !.replicators = added.reps]
        IN  IF added.dup THEN st1 @@ [err |-> "ErrReplicatorExists"]
            ELSE IF fail.at = "persist"
              THEN [st1 EXCEPT !.persistCalled = TRUE] @@ [err |-> "ErrPersist"]
            ELSE
              LET heads == pushHeads(v.cols, 1, fail, {})
                  st2 == [st1 EXCEPT
                            !.persistCalled = TRUE,
                            !.persisted = dbSetReplicator(persisted, paddr,
                                            {SchemaOf[n] : n \in SeqRange(v.cols)}),
                            !.pushed = heads.pushed]
              IN  st2 @@ [err |-> IF heads.err # "nil" THEN heads.err
                                  ELSE IF fail.at = "Commit" THEN "ErrCommit"
                                  ELSE "nil"]

\* what a call is remembered by
CallRecord(op, pid, names, fail, r) ==
  LET known == \A i \in 1..Len(names) : names[i] \in DOMAIN SchemaOf
      cols  == IF names = <<>> THEN AllCollections ELSE names
  IN  [op |-> op,
       pid |-> pid,
       reached |-> /\ known
                   /\ pid \in PeerIDs
                   /\ fail.at # "NewTxn"
                   /\ ~(names = <<>> /\ fail.at = "GetAllCollections"),
       hadPair |-> /\ known
                   /\ pid \in PeerIDs
                   /\ \E i \in 1..Len(cols) : pid \in replicators[SchemaOf[cols[i]]],
       persistCalled |-> r.persistCalled,
       changed |-> \/ r.replicators # replicators
                   \/ r.peerstore # peerstore
                   \/ r.persisted # persisted,
       mapChanged |-> r.replicators # replicators,
       hadAddrs |-> pid \in peerstore,
       clearCalled |-> r.cleared,
       docs |-> IF known THEN UNION {DocsOf[cols[i]] : i \in 1..Len(cols)} ELSE {},
       unreadable |-> fail.bad,
       pushed |-> r.pushed]

SetReplicatorOf(paddrs, nameLists, fails) ==
  \E paddr \in paddrs, names \in nameLists :
   \E fail \in {f \in fails : f.col <= Len(verifyCollections(names).cols) \/ f.col = 1} :
    \E r \in {setReplicatorResult(paddr, names, fail)} :
        /\ replicators' = r.replicators
        /\ peerstore' = r.peerstore
        /\ persisted' = r.persisted
        /\ repRet' = r.err
        /\ repCall' = CallRecord("Set", paddr, names, fail, r)
        /\ LET added == IF r.err = "nil"
                         THEN r.replicators[EventSchema] \ replicators[EventSchema]
                         ELSE {}
           IN  /\ removed' = removed \ added
               /\ delSeen' = delSeen \ added

SetReplicator == SetReplicatorOf(Multiaddrs, CollectionNames, SetFailPoints)

\* where DeleteReplicator can fail for reasons outside the peer
DeleteFailPoints ==
  [at : {"none", "NewTxn", "GetAllCollections", "persist", "Commit"},
   col : {1}, bad : {{}}]

\* a count that never finds a schema left
totalSchemasZero(reps, schemaMap, pid) == 0

\* deleteReplicator: the number of schemas, other than the ones to delete,
\* that the peer is a replicator of
totalSchemas(reps, schemaMap, pid) ==
  Cardinality({sch \in Schemas \ schemaMap : pid \in reps[sch]})

\* deleteReplicator: the peer leaves the replicator set of each schema to delete
removeReplicator(reps, schemaMap, pid) ==
  [sch \in Schemas |-> IF sch \in schemaMap THEN reps[sch] \ {pid} ELSE reps[sch]]

\* Peer.DeleteReplicator with Peer.deleteReplicator
deleteReplicatorResult(pid, names, fail) ==
  LET st0 == [replicators |-> replicators, peerstore |-> peerstore,
              persisted |-> persisted, persistCalled |-> FALSE,
              cleared |-> FALSE, pushed |-> {}]
      v   == verifyCollections(names)
  IN  IF fail.at = "NewTxn" THEN st0 @@ [err |-> "ErrNewTxn"]
      ELSE IF isSelf(pid) THEN st0 @@ [err |-> "ErrSelfReplicator"]
      ELSE IF names = <<>> /\ fail.at = "GetAllCollections"
        THEN st0 @@ [err |-> "ErrGetCollections"]
      ELSE IF v.err THEN st0 @@ [err |-> "ErrGetCollection"]
      ELSE
        LET schemaMap == {SchemaOf[n] : n \in SeqRange(v.cols)}
            clear     == totalSchemas(replicators, schemaMap, pid) = 0
            st1 == [st0 EXCEPT
                      !.replicators = removeReplicator(replicators, schemaMap, pid),
                      !.peerstore = IF clear THEN peerstore \ {pid} ELSE peerstore,
                      !.cleared = clear,
                      !.persistCalled = TRUE]
        IN  IF fail.at = "persist" THEN st1 @@ [err |-> "ErrPersist"]
            ELSE [st1 EXCEPT !.persisted = dbDeleteReplicator(persisted, pid, schemaMap)]
                   @@ [err |-> IF fail.at = "Commit" THEN "ErrCommit" ELSE "nil"]

DeleteReplicatorOf(pids, nameLists, fails) ==
  \E pid \in pids, names \in nameLists, fail \in fails :
    \E r \in {deleteReplicatorResult(pid, names, fail)} :
        /\ replicators' = r.replicators
        /\ peerstore' = r.peerstore
        /\ persisted' = r.persisted
        /\ repRet' = r.err
        /\ repCall' = CallRecord("Delete", pid, names, fail, r)
        /\ removed' = IF r.err = "nil"
                      THEN removed \cup (replicators[EventSchema] \ r.replicators[EventSchema])
                      ELSE removed
        /\ UNCHANGED delSeen

DeleteReplicator == DeleteReplicatorOf(PeerIDs, CollectionNames, DeleteFailPoints)

\* db.GetAllReplicators: the peers with a record, each with its schemas
dbGetAllReplicators(recs) == {q \in PeerIDs : recs[q] # {}}

\* Peer.loadReplicators: every persisted (schema, peer) goes into the map, the
\* addresses of every persisted peer into the peerstore
loadReplicators(reps, recs) ==
  [sch \in Schemas |-> reps[sch] \cup {q \in dbGetAllReplicators(recs) : sch \in recs[q]}]

\* the peerstore and datastore calls a replicator call made between
\* p.mu.Lock() and p.mu.Unlock(): setReplicator calls AddAddrs before it locks
\* and db.SetReplicator after it has unlocked; deleteReplicator locks with a
\* deferred unlock and then calls ClearAddrs and db.DeleteReplicator
ioUnderMu(rc) ==
  IF rc.op = "Delete"
  THEN (IF rc.clearCalled THEN {"ClearAddrs"} ELSE {})
         \cup (IF rc.persistCalled THEN {"db.DeleteReplicator"} ELSE {})
  ELSE {}

\* the node is started again: NewPeer makes an empty replicator map on a new
\* host and calls loadReplicators
NewPeer ==
  \E getErr \in BOOLEAN :
    LET empty == [sch \in Schemas |-> {}]
        r == IF getErr
             THEN [replicators |-> empty, peerstore |-> {}, err |-> "ErrGetReplicators"]
             ELSE [replicators |-> loadReplicators(empty, persisted),
                   peerstore |-> dbGetAllReplicators(persisted), err |-> "nil"]
    IN  /\ replicators' = r.replicators
        /\ peerstore' = r.peerstore
        /\ repRet' = r.err
        /\ repCall' = [NoCall EXCEPT !.op = "Load",
                                     !.changed = r.replicators # replicators
                                                 \/ r.peerstore # peerstore,
                                     !.mapChanged = r.replicators # replicators]
        /\ UNCHANGED <<persisted, removed, delSeen>>

NextRep ==
  \/ SetReplicator /\ UNCHANGED <<lwwVars, pushVars, bcastVars, nodeVars>>
  \/ DeleteReplicator /\ UNCHANGED <<lwwVars, pushVars, bcastVars, nodeVars>>
  \/ NewPeer /\ UNCHANGED <<lwwVars, pushVars, bcastVars, nodeVars>>

InitRep == InitLWWIdle /\ InitPushIdle /\ InitRepIdle /\ InitBcastIdle /\ InitNodeIdle

SpecRep == InitRep /\ [][NextRep]_vars

(***************************************************************************)
(* server: the table of pubsub topics                                      *)
(*                                                                         *)
(* The entry of a topic is "none" (no entry), "pub" (a publish-only        *)
(* handle), "sub" (a subscribed handle) or "pubClosed" (a publish-only     *)
(* handle that has been closed).                                           *)
(***************************************************************************)

\* what rpc.NewTopic and Topic.Close can do: Close can fail with the handle
\* still open ("Close") or closed already ("CloseLate")
TopicFails == IF faults THEN {"none", "Close", "CloseLate", "NewTopic"} ELSE {"none"}

upgradesAlways(mode, subscribe) == TRUE

\* !t.subscribed && subscribe
upgrades(mode, subscribe) == mode \in {"pub", "pubClosed"} /\ subscribe

\* server.addPubSubTopic: the table afterwards and the error returned
addPubSubTopic(tbl, topic, subscribe, fail) ==
  IF ~ps THEN [topics |-> tbl, err |-> "nil"]
  ELSE IF tbl[topic] # "none" /\ ~upgrades(tbl[topic], subscribe)
    THEN [topics |-> tbl, err |-> "nil"]
  ELSE IF tbl[topic] # "none" /\ fail \in {"Close", "CloseLate"}
    THEN [topics |-> [tbl EXCEPT ![topic] = IF fail = "Close" THEN @ ELSE "pubClosed"],
          err    |-> "ErrClose"]
  ELSE IF fail = "NewTopic"
    THEN [topics |-> [tbl EXCEPT ![topic] = IF @ = "none" THEN "none" ELSE "pubClosed"],
          err    |-> "ErrNewTopic"]
  ELSE [topics |-> [tbl EXCEPT ![topic] = IF subscribe THEN "sub" ELSE "pub"],
        err    |-> "nil"]

\* server.removePubSubTopic
removePubSubTopic(tbl, topic, fail) ==
  IF ~ps THEN [topics |-> tbl, err |-> "nil"]
  ELSE IF tbl[topic] # "none"
    THEN [topics |-> [tbl EXCEPT ![topic] = "none"],
          err    |-> IF fail \in {"Close", "CloseLate"} THEN "ErrClose" ELSE "nil"]
  ELSE [topics |-> tbl, err |-> "nil"]

TopicCall(topic, subscribe, r) ==
  [topic |-> topic, subscribe |-> subscribe, pre |-> topics[topic], ret |-> r.err]

\* the history of an event is kept until the step after its handler returned
Forget(b) == IF b.pc = "recv" THEN IdleLoop ELSE b

\* the topics the callers outside the broadcast loop add and remove: the
\* docKey topics and the topic of the collection
ApiTopics == DocKeys \cup {EventSchema}

\* what the steps below leave alone
TopicFrame ==
  UNCHANGED <<lwwVars, nodeVars, docs, closed, queuedChildren, blockstore, merged,
              pushLogEmitter, events, call, faults,
              replicators, peerstore, persisted, repRet, repCall, removed, ps>>

\* addPubSubTopic called by PushLog, AddP2PCollections, RemoveP2PCollections
\* or a pubsub handler, concurrently with the broadcast loop; the history of
\* the call is recorded or not
AddTopicBy(record) ==
  \E topic \in ApiTopics, subscribe \in BOOLEAN, fail \in TopicFails :
    \E r \in {addPubSubTopic(topics, topic, subscribe, fail)} :
      /\ topics' = r.topics
      /\ topicCall' = IF record THEN TopicCall(topic, subscribe, r) ELSE NoTopicCall
      /\ bc' = Forget(bc)
      /\ UNCHANGED delSeen
      /\ TopicFrame

AddTopic == AddTopicBy(TRUE)

\* the publishLog call of the loop is between its first lookup and its return
Publishing(topic) ==
  bc.pc \in {"lookup", "add", "publish"} /\ bc.pl.ret = "none" /\ bc.pl.topic = topic

\* removePubSubTopic called by AddP2PCollections or RemoveP2PCollections,
\* concurrently with the broadcast loop
RemoveTopic ==
  \E topic \in ApiTopics, fail \in TopicFails :
    \E r \in {removePubSubTopic(topics, topic, fail)} :
      /\ topics' = r.topics
      /\ bc' = IF Publishing(topic) THEN [bc EXCEPT !.pl.removed = TRUE] ELSE Forget(bc)
      /\ topicCall' = NoTopicCall
      /\ UNCHANGED delSeen
      /\ TopicFrame

(***************************************************************************)
(* Peer.handleBroadcastLoop                                                *)
(***************************************************************************)

\* the handler returns and its locals are gone
Finish(b, err) ==
  [b EXCEPT !.pc = "recv", !.rest = <<>>, !.topic = "", !.subscribe = FALSE,
            !.reps = {}, !.ret = err]

\* the handler goes on to its next call, or returns nil after the last one
Advance(b) ==
  IF b.rest = <<>> THEN Finish(b, "nil")
  ELSE [b EXCEPT !.pc    = IF Head(b.rest).op = "publish" THEN "lookup" ELSE "reps",
                 !.topic = Head(b.rest).topic,
                 !.rest  = Tail(b.rest)]

PublishOn(topic) == [op |-> "publish", topic |-> topic]
PushToReplicators == [op |-> "push", topic |-> ""]

createTopicDocKey(b) == b.docKey

updateTopicsDocKeyOnly(b) == <<b.docKey>>

\* the topics handleDocUpdateLog publishes the log on, in its order
updateTopics(b) == <<b.docKey, b.schema>>

\* the topic RegisterNewDocument publishes the log of a new document on
createTopic(b) == b.schema

\* Close has unsubscribed the update channel, which closes it
updateChannelClosed == "updates" \in SeqRange(shut.steps)

\* the loop takes an event from the update channel and enters its handler
Recv ==
  /\ ps
  /\ bc.pc = "recv"
  /\ ~updateChannelClosed
  /\ \E dk \in DocKeys, pr \in 0..MaxPriority, bad \in Fails :
       LET b0 == [IdleLoop EXCEPT !.docKey = dk, !.schema = EventSchema, !.priority = pr]
       IN  bc' = IF pr = 0 THEN [b0 EXCEPT !.ret = "skipped"]
                 ELSE IF bad THEN [b0 EXCEPT !.ret = "ErrDocKey"]
                 ELSE IF pr = 1
                   THEN [b0 EXCEPT !.pc = "has",
                                   !.rest = <<PublishOn(createTopic(b0)), PushToReplicators>>]
                 ELSE Advance([b0 EXCEPT !.rest =
                                 <<PushToReplicators>> \o
                                 [i \in 1..Len(updateTopics(b0)) |->
                                    PublishOn(updateTopics(b0)[i])]])
  /\ delSeen' = removed
  /\ UNCHANGED <<topics, topicCall>>
  /\ TopicFrame

\* RegisterNewDocument: the argument !p.server.hasPubSubTopic(schemaID)
Has ==
  /\ bc.pc = "has"
  /\ bc' = [bc EXCEPT !.pc = "register",
                      !.subscribe = ~hasPubSubTopic(bc.schema),
                      !.schemaSub = (topics[bc.schema] = "sub")]
  /\ UNCHANGED <<topics, topicCall, delSeen>>
  /\ TopicFrame

\* RegisterNewDocument: addPubSubTopic(dockey, ...)
Register ==
  /\ bc.pc = "register"
  /\ \E fail \in TopicFails :
       \E r \in {addPubSubTopic(topics, bc.docKey, bc.subscribe, fail)} :
         /\ topics' = r.topics
         /\ bc' = IF r.err # "nil" THEN Finish(bc, r.err)
                  ELSE Advance([bc EXCEPT !.registered = r.topics[bc.docKey]])
  /\ UNCHANGED <<topicCall, delSeen>>
  /\ TopicFrame

\* publishLog: the lookup of the topic under the lock; the first lookup of a
\* call starts its history
PublishLookup ==
  /\ bc.pc = "lookup"
  /\ LET p0 == IF bc.pl.ret # "none" \/ bc.pl.lookups = 0
               THEN [NoPublish EXCEPT !.topic = bc.topic] ELSE bc.pl
         t  == topics[bc.topic]
     IN  /\ p0.lookups < MaxLookups
         /\ bc' = [bc EXCEPT
                     !.pc = IF t = "none" THEN "add" ELSE "publish",
                     !.pl = [p0 EXCEPT !.lookups = @ + 1,
                                       !.absent  = IF p0.lookups = 0 THEN t = "none" ELSE @]]
  /\ UNCHANGED <<topics, topicCall, delSeen>>
  /\ TopicFrame

publishSubscribesAlways(topic) == TRUE

\* the mode publishLog asks for when it creates the topic it did not find
publishSubscribes(topic) == FALSE

\* publishLog: addPubSubTopic(topic, false) and, when it succeeds, the
\* recursive call
PublishAdd ==
  /\ bc.pc = "add"
  /\ \E fail \in TopicFails :
       \E r \in {addPubSubTopic(topics, bc.topic, publishSubscribes(bc.topic), fail)} :
         /\ topics' = r.topics
         /\ LET p1 == [bc.pl EXCEPT
                         !.adds   = @ + 1,
                         !.addSub = @ \/ (r.topics[bc.topic] = "sub" /\ topics[bc.topic] # "sub")]
            IN  bc' = IF r.err # "nil"
                      THEN Finish([bc EXCEPT !.pl = [p1 EXCEPT !.ret = "ErrAddTopic"]], "ErrAddTopic")
                      ELSE [bc EXCEPT !.pc = "lookup", !.pl = p1]
  /\ UNCHANGED <<topicCall, delSeen>>
  /\ TopicFrame

PublishOutcomes == IF faults THEN {"nil", "ErrMarshal", "ErrPublish"} ELSE {"nil"}

\* publishLog: req.Marshal and t.Publish
PublishSend ==
  /\ bc.pc = "publish"
  /\ \E out \in PublishOutcomes :
       LET sent == out # "ErrMarshal"
           p1   == [bc.pl EXCEPT !.publishes = IF sent THEN @ + 1 ELSE @, !.ret = out]
           b1   == [bc EXCEPT !.pl = p1,
                              !.pubs = IF sent THEN Append(@, bc.topic) ELSE @]
       IN  bc' = IF out = "nil" THEN Advance(b1) ELSE Finish(b1, out)
  /\ UNCHANGED <<topics, topicCall, delSeen>>
  /\ TopicFrame

\* pushLogToReplicators: the replicators of the schema are read under the lock
ReadReps ==
  /\ bc.pc = "reps"
  /\ bc' = [bc EXCEPT !.pc = "push", !.reps = replicators[bc.schema]]
  /\ UNCHANGED <<topics, topicCall, delSeen>>
  /\ TopicFrame

pushTargetsAll(seen, peers) == seen

\* the replicators a pushLog goroutine is started for: those that are not
\* among the peers of the docKey topic or of the schema topic
pushTargets(seen, peers) == seen \ peers

\* pushLogToReplicators: the loop over the replicators, outside the lock, over
\* the very map SetReplicator and DeleteReplicator write; a peer they added or
\* removed since the read may or may not be seen; the peers that listen to the
\* docKey or the schema topic are skipped
PushLogToReplicators ==
  /\ bc.pc = "push"
  /\ \E peers \in SUBSET (PeerIDs \ {HostID}),
        seen \in SUBSET (bc.reps \cup replicators[bc.schema]) :
       /\ (bc.reps \cap replicators[bc.schema]) \subseteq seen
       /\ bc' = Advance([bc EXCEPT !.pushes = pushTargets(seen, peers),
                                   !.pushed = TRUE,
                                   !.listed = peers,
                                   !.snap   = bc.reps,
                                   !.live   = replicators[bc.schema]])
  /\ UNCHANGED <<topics, topicCall, delSeen>>
  /\ TopicFrame

\* the state a specification of the topic table or the loop starts from,
\* but for ps and the table
InitTopicsIdle ==
  /\ InitLWWIdle
  /\ InitRepIdle
  /\ InitNodeIdle
  /\ docs = [d \in DocKeys |-> 0]
  /\ closed = {}
  /\ queuedChildren = {}
  /\ blockstore = {}
  /\ merged = {}
  /\ pushLogEmitter = TRUE
  /\ events = 0
  /\ call = [c \in Calls |-> IdleCall]
  /\ faults = TRUE
  /\ bc = IdleLoop
  /\ topicCall = NoTopicCall

\* newServer: with a pubsub network the topics of the p2p collections are
\* subscribed; without one the table stays empty
InitTopics ==
  /\ InitTopicsIdle
  /\ ps \in BOOLEAN
  /\ \E sub \in BOOLEAN :
       topics = [t \in TopicNames |-> IF t = EventSchema /\ sub /\ ps THEN "sub" ELSE "none"]

\* the callers of addPubSubTopic and removePubSubTopic, with every failure
NextTopics ==
  \/ AddTopic
  \/ RemoveTopic

SpecTopics == InitTopics /\ [][NextTopics]_vars

\* Start runs the loop only with a pubsub network
InitBcast ==
  /\ InitTopicsIdle
  /\ ps = TRUE
  /\ \E sub \in BOOLEAN :
       topics = [t \in TopicNames |-> IF t = EventSchema /\ sub THEN "sub" ELSE "none"]

\* the loop and the topic calls that run beside it, with every failure
NextBcast ==
  \/ Recv
  \/ Has
  \/ Register
  \/ PublishLookup
  \/ PublishAdd
  \/ PublishSend
  \/ ReadReps
  \/ PushLogToReplicators
  \/ AddTopicBy(FALSE)
  \/ RemoveTopic

SpecBcast == InitBcast /\ [][NextBcast]_vars

\* the replicator calls made while the loop runs: one peer, the collection of
\* the events, and the persisting of the record as the only failure
BcastPeer == CHOOSE q \in PeerIDs : q # HostID
BcastNames == {<<c>> : c \in {c \in DOMAIN SchemaOf : SchemaOf[c] = EventSchema}}
BcastSetFails == {f \in SetFailPoints : f.at \in {"none", "persist"} /\ f.bad = {}}
BcastDeleteFails == {f \in DeleteFailPoints : f.at = "none"}

BcastFrame == UNCHANGED <<lwwVars, pushVars, nodeVars, ps, topicCall>>

InitBcastReps ==
  /\ InitLWWIdle
  /\ InitPushIdle
  /\ InitRepIdle
  /\ InitNodeIdle
  /\ InitBcastIdle

\* the loop and the replicator calls that run beside it; no topic call fails
NextBcastReps ==
  \/ Recv
  \/ Has
  \/ Register
  \/ PublishLookup
  \/ PublishAdd
  \/ PublishSend
  \/ ReadReps
  \/ PushLogToReplicators
  \/ SetReplicatorOf({BcastPeer}, BcastNames, BcastSetFails) /\ bc' = Forget(bc) /\ BcastFrame
  \/ DeleteReplicatorOf({BcastPeer}, BcastNames, BcastDeleteFails) /\ bc' = Forget(bc) /\ BcastFrame

SpecBcastReps == InitBcastReps /\ [][NextBcastReps]_vars

\* the same with every failure of the topic calls and of the publish
InitBcastFaults ==
  /\ InitTopicsIdle
  /\ ps = TRUE
  /\ topics = [t \in TopicNames |-> "none"]

SpecBcastFaults == InitBcastFaults /\ [][NextBcastReps]_vars

(***************************************************************************)
(* P2P collections and the construction of the server                      *)
(***************************************************************************)

\* what a node step leaves alone beside the topic table and its own variables
NodeFrame ==
  UNCHANGED <<lwwVars, repVars, bcastVars, docs, closed, queuedChildren,
              blockstore, merged, pushLogEmitter, events, call, faults>>

\* the rollback loop of AddP2PCollections (adding = FALSE: removePubSubTopic of
\* each topic of the list) and of RemoveP2PCollections (adding = TRUE:
\* addPubSubTopic(topic, true)); the first error ends the loop and is returned
\* with the cause attached, otherwise the cause is returned
RECURSIVE undoTopics(_, _, _, _, _, _)
undoNothing(tbl, list, j, failAt, cause, adding) == [topics |-> tbl, err |-> cause]
undoTopics(tbl, list, j, failAt, cause, adding) ==
  IF j > Len(list) THEN [topics |-> tbl, err |-> cause]
  ELSE LET r == IF adding
                THEN addPubSubTopic(tbl, list[j], TRUE,
                                    IF j = failAt THEN "NewTopic" ELSE "none")
                ELSE removePubSubTopic(tbl, list[j],
                                       IF j = failAt THEN "Close" ELSE "none")
       IN IF r.err # "nil" THEN [topics |-> r.topics, err |-> "ErrUndo"]
          ELSE undoTopics(r.topics, list, j + 1, failAt, cause, adding)

\* AddP2PCollections, the topic loop from collection i on: addPubSubTopic(col,
\* true); on an error the topics of addedTopics are removed and the error is
\* returned, otherwise col is appended to addedTopics
RECURSIVE addTopics(_, _, _, _, _, _, _)
addTopics(tbl, collections, i, addedTopics, failAt, fail, undoFailAt) ==
  IF i > Len(collections)
  THEN [topics |-> tbl, err |-> "nil", addedTopics |-> addedTopics]
  ELSE LET r == addPubSubTopic(tbl, collections[i], TRUE,
                               IF i = failAt THEN fail ELSE "none")
       IN IF r.err # "nil"
          THEN LET u == undoTopics(r.topics, addedTopics, 1, undoFailAt, r.err, FALSE)
               IN [topics |-> u.topics, err |-> u.err, addedTopics |-> addedTopics]
          ELSE addTopics(r.topics, collections, i + 1,
                         Append(addedTopics, collections[i]), failAt, fail, undoFailAt)

\* the positions of a loop over list at which an operation can fail, 0 for none
FailAts(list) == IF faults THEN 0..Len(list) ELSE {0}

\* Peer.AddP2PCollections(collections) up to the collection topics: the
\* transaction is opened, the collections are looked up and added to the store
\* of the transaction, and the collection topics are added subscribed; the keys
\* of the documents of the collections are read. An error return discards the
\* transaction. record keeps the state before the call in the history fields,
\* which the next call finds cleared.
AddP2PCollectionsOf(lists, record) ==
  /\ built.pc = "built"
  /\ p2pCall.pc \in (IF record THEN {"idle"} ELSE {"idle", "done"})
  /\ \E collections \in lists, txnErr \in Fails :
     \E failAt \in IF txnErr THEN {0} ELSE FailAts(collections) :
     \E fail \in IF failAt = 0 THEN {"none"} ELSE TopicFails \ {"none"},
        undoFailAt \in IF failAt = 0 THEN {0} ELSE 0..(failAt - 1),
        keysErr \in IF txnErr \/ failAt > 0 THEN {FALSE} ELSE Fails :
       \E r \in {addTopics(topics, collections, 1, <<>>, failAt, fail, undoFailAt)},
          start \in {[NoP2PCall EXCEPT
                        !.op = "add", !.cols = collections,
                        !.pre = IF record
                                THEN {t \in CollectionIDs : topics[t] = "sub"}
                                ELSE {}]} :
         IF txnErr
         THEN /\ p2pCall' = [start EXCEPT !.pc = "done", !.ret = "ErrTxn"]
              /\ UNCHANGED topics
         ELSE /\ failAt > 0 => r.err # "nil"
              /\ undoFailAt > 0 => r.err = "ErrUndo"
              /\ topics' = r.topics
              /\ p2pCall' =
                   IF r.err # "nil"
                   THEN [start EXCEPT !.pc = "done", !.ret = r.err, !.at = failAt,
                                      !.addedTopics = r.addedTopics]
                   ELSE IF keysErr
                   THEN [start EXCEPT !.pc = "done", !.added = TRUE, !.ret = "ErrDocKeys",
                                      !.addedTopics = r.addedTopics]
                   ELSE [start EXCEPT !.pc = "keys", !.added = TRUE,
                                      !.addedTopics = r.addedTopics,
                                      !.keys = IF SchemaID \in SeqRange(collections)
                                               THEN existing ELSE {}]
  /\ UNCHANGED <<p2pcols, existing, built, shut>>
  /\ NodeFrame

\* Peer.AddP2PCollections([SchemaID])
AddP2PCollections == AddP2PCollectionsOf({<<SchemaID>>}, FALSE)

\* AddP2PCollections: removePubSubTopic of the next document; its error is
\* logged
AddP2PRemoveKey ==
  /\ p2pCall.pc = "keys"
  /\ \E key \in p2pCall.keys, fail \in TopicFails :
       /\ topics' = removePubSubTopic(topics, key, fail).topics
       /\ p2pCall' = [p2pCall EXCEPT !.keys = @ \ {key}]
  /\ UNCHANGED <<p2pcols, existing, built, shut>>
  /\ NodeFrame

\* AddP2PCollections: txn.Commit after the last document
AddP2PCommit ==
  /\ p2pCall.pc = "keys"
  /\ p2pCall.keys = {}
  /\ \E commitErr \in Fails :
       /\ p2pcols' = IF commitErr THEN p2pcols ELSE p2pcols \cup SeqRange(p2pCall.cols)
       /\ p2pCall' = [p2pCall EXCEPT !.pc = "done",
                                     !.ret = IF commitErr THEN "ErrCommit" ELSE "nil"]
  /\ UNCHANGED <<topics, existing, built, shut>>
  /\ NodeFrame

\* RemoveP2PCollections, the topic loop from collection i on:
\* removePubSubTopic(col); on an error the topics of removedTopics are added
\* back and the error is returned. The loop appends nothing to removedTopics.
RECURSIVE removeTopics(_, _, _, _, _, _)
removeTopics(tbl, collections, i, removedTopics, failAt, undoFailAt) ==
  IF i > Len(collections) THEN [topics |-> tbl, err |-> "nil"]
  ELSE LET r == removePubSubTopic(tbl, collections[i],
                                  IF i = failAt THEN "Close" ELSE "none")
       IN IF r.err # "nil"
          THEN undoTopics(r.topics, removedTopics, 1, undoFailAt, r.err, TRUE)
          ELSE removeTopics(r.topics, collections, i + 1, removedTopics,
                            failAt, undoFailAt)

\* Peer.RemoveP2PCollections(collections) up to the collection topics: the
\* transaction is opened, the collections are looked up and removed from the
\* store of the transaction, and the collection topics are removed; the keys of
\* the documents of the collections are read. An error return discards the
\* transaction.
RemoveP2PCollectionsOf(lists, record) ==
  /\ built.pc = "built"
  /\ p2pCall.pc \in (IF record THEN {"idle"} ELSE {"idle", "done"})
  /\ \E collections \in lists, txnErr \in Fails :
     \E failAt \in IF txnErr THEN {0} ELSE FailAts(collections) :
     \E undoFailAt \in IF failAt = 0 THEN {0} ELSE 0..(failAt - 1),
        keysErr \in IF txnErr \/ failAt > 0 THEN {FALSE} ELSE Fails :
       \E r \in {removeTopics(topics, collections, 1, <<>>, failAt, undoFailAt)},
          start \in {[NoP2PCall EXCEPT
                        !.op = "remove", !.cols = collections,
                        !.pre = IF record
                                THEN {t \in CollectionIDs : topics[t] = "sub"}
                                ELSE {}]} :
         IF txnErr
         THEN /\ p2pCall' = [start EXCEPT !.pc = "done", !.ret = "ErrTxn"]
              /\ UNCHANGED topics
         ELSE /\ failAt > 0 => r.err # "nil"
              /\ undoFailAt > 0 => r.err = "ErrUndo"
              /\ topics' = r.topics
              /\ p2pCall' =
                   IF r.err # "nil"
                   THEN [start EXCEPT !.pc = "done", !.ret = r.err, !.at = failAt]
                   ELSE IF keysErr
                   THEN [start EXCEPT !.pc = "done", !.ret = "ErrDocKeys"]
                   ELSE [start EXCEPT !.pc = "rkeys",
                                      !.keys = IF SchemaID \in SeqRange(collections)
                                               THEN existing ELSE {}]
  /\ UNCHANGED <<p2pcols, existing, built, shut>>
  /\ NodeFrame

\* RemoveP2PCollections: addPubSubTopic(key, true) of the next document; its
\* error is logged
RemoveP2PAddKey ==
  /\ p2pCall.pc = "rkeys"
  /\ \E key \in p2pCall.keys, fail \in TopicFails :
       /\ topics' = addPubSubTopic(topics, key, TRUE, fail).topics
       /\ p2pCall' = [p2pCall EXCEPT !.keys = @ \ {key}]
  /\ UNCHANGED <<p2pcols, existing, built, shut>>
  /\ NodeFrame

\* RemoveP2PCollections: txn.Commit after the last document
RemoveP2PCommit ==
  /\ p2pCall.pc = "rkeys"
  /\ p2pCall.keys = {}
  /\ \E commitErr \in Fails :
       /\ p2pcols' = IF commitErr THEN p2pcols ELSE p2pcols \ SeqRange(p2pCall.cols)
       /\ p2pCall' = [p2pCall EXCEPT !.pc = "done",
                                     !.ret = IF commitErr THEN "ErrCommit" ELSE "nil"]
  /\ UNCHANGED <<topics, existing, built, shut>>
  /\ NodeFrame

\* the argument lists of the p2p-collection calls: up to MaxCols schema ids,
\* none twice
MaxCols == 3
ColLists ==
  {q \in UNION {[1..n -> CollectionIDs] : n \in 1..MaxCols} :
     \A i, j \in 1..Len(q) : q[i] = q[j] => i = j}

\* a built node with pubsub and two documents; p2p collections are added and
\* removed, and every store and pubsub operation can fail
InitCols ==
  /\ InitTopicsIdle
  /\ ps = TRUE
  /\ topics = [t \in TopicNames |-> IF t \in existing THEN "sub" ELSE "none"]

\* the call has returned and the next one can be made: its history is dropped
P2PCallReturned ==
  /\ p2pCall.pc = "done"
  /\ p2pCall' = NoP2PCall
  /\ UNCHANGED <<topics, p2pcols, existing, built, shut>>
  /\ NodeFrame

NextCols ==
  \/ P2PCallReturned
  \/ AddP2PCollectionsOf(ColLists, TRUE)
  \/ AddP2PRemoveKey
  \/ AddP2PCommit
  \/ RemoveP2PCollectionsOf(ColLists, TRUE)
  \/ RemoveP2PAddKey
  \/ RemoveP2PCommit

SpecCols == InitCols /\ [][NextCols]_vars

\* Peer.server while newServer runs: NewPeer assigns it when newServer has
\* returned
peerServerSet == built.pc = "built"

\* Peer.loadP2PCollections, called by newServer: each collection of the db is
\* added as a subscribed topic through p.server, and a call through the nil
\* p.server panics when it reads s.peer
loadP2PCollections(tbl, cols, loadErr, fail) ==
  IF loadErr THEN [ret |-> "ErrLoad", colMap |-> {}, topics |-> tbl]
  ELSE IF cols = {} THEN [ret |-> "nil", colMap |-> {}, topics |-> tbl]
  ELSE IF ~peerServerSet THEN [ret |-> "panic", colMap |-> {}, topics |-> tbl]
  ELSE [ret    |-> addPubSubTopic(tbl, SchemaID, TRUE, fail).err,
        colMap |-> cols,
        topics |-> addPubSubTopic(tbl, SchemaID, TRUE, fail).topics]

\* the process starts again and NewPeer calls newServer
newServerLoad ==
  /\ built.pc \in {"built", "failed", "panic"}
  /\ built' = [NotBuilt EXCEPT !.pc = "load"]
  /\ topics' = [t \in TopicNames |-> "none"]
  /\ p2pCall' = NoP2PCall
  /\ shut' = NotClosing
  /\ UNCHANGED <<p2pcols, existing>>
  /\ NodeFrame

\* newServer up to the keys of the documents: with pubsub the p2p collections
\* are loaded and the documents of the collections that are not among them
\* are to be registered
newServerCollections ==
  /\ built.pc = "load"
  /\ \E loadErr \in Fails, fail \in TopicFails, colsErr \in Fails :
       \E r \in {loadP2PCollections(topics, p2pcols, loadErr, fail)} :
         IF ~ps
         THEN /\ built' = [built EXCEPT !.pc = "emitters"]
              /\ UNCHANGED topics
         ELSE /\ topics' = r.topics
              /\ built' =
                   IF r.ret = "panic" THEN [built EXCEPT !.pc = "panic", !.ret = "panic"]
                   ELSE IF r.ret # "nil" THEN [built EXCEPT !.pc = "failed", !.ret = r.ret]
                   ELSE IF colsErr
                   THEN [built EXCEPT !.pc = "failed", !.ret = "ErrCollections"]
                   ELSE [built EXCEPT !.pc = "docs", !.colMap = r.colMap,
                                      !.keys = IF SchemaID \in r.colMap
                                               THEN {} ELSE existing]
  /\ UNCHANGED <<p2pcols, existing, p2pCall, shut>>
  /\ NodeFrame

\* newServer: addPubSubTopic(key, true) for the next existing document
newServerRegister ==
  /\ built.pc = "docs"
  /\ \E key \in built.keys, fail \in TopicFails :
       \E r \in {addPubSubTopic(topics, key, TRUE, fail)} :
         /\ topics' = r.topics
         /\ built' = IF r.err # "nil"
                      THEN [built EXCEPT !.pc = "failed", !.ret = r.err]
                      ELSE [built EXCEPT !.keys = @ \ {key}]
  /\ UNCHANGED <<p2pcols, existing, p2pCall, shut>>
  /\ NodeFrame

\* newServer: the emitters are made and the server is returned
newServerReturn ==
  /\ \/ built.pc = "docs" /\ built.keys = {}
     \/ built.pc = "emitters"
  /\ built' = [built EXCEPT !.pc = "built", !.ret = "nil"]
  /\ UNCHANGED <<topics, p2pcols, existing, p2pCall, shut>>
  /\ NodeFrame


(***************************************************************************)
(* Shutdown: Peer.Close                                                    *)
(***************************************************************************)

\* the statement of Close that follows each statement, from the call to the
\* return: the topics, the connections and the gRPC server, the two event
\* emitters, the update channel, the block service, p.cancel()
closeNext ==
  [open |-> "topics", topics |-> "rpc", rpc |-> "emitters", emitters |-> "updates",
   updates |-> "bserv", bserv |-> "cancel", cancel |-> "closed"]

\* the steps of Close that can return an error: removeAllPubsubTopics,
\* c.Close of a connection, Close of an emitter, p.bserv.Close
closeCanFail == {"topics", "rpc", "emitters", "bserv"}

\* a Close that returns at the first error
closeAbortsOnError(err) == err

\* Close logs the error of a step and goes on
closeAborts(err) == FALSE

\* server.removeAllPubsubTopics: every topic is deleted and closed; when a
\* t.Close fails the topics not yet visited stay in the table
removeAllPubsubTopics(tbl, gone) ==
  [t \in TopicNames |-> IF t \in gone THEN "none" ELSE tbl[t]]

\* Close is called, or goes on with its next statement
CloseStep ==
  /\ built.pc = "built"
  /\ shut.pc # "closed"
  /\ \E step \in {closeNext[shut.pc]} :
       \E err \in (IF step \in closeCanFail THEN Fails ELSE {FALSE}) :
         LET present == {t \in TopicNames : topics[t] # "none"}
         IN  /\ IF step = "topics" /\ ps
                THEN \E gone \in SUBSET present :
                       /\ IF err THEN gone # {} ELSE gone = present
                       /\ topics' = removeAllPubsubTopics(topics, gone)
                       /\ shut' = [shut EXCEPT
                                     !.pc = IF closeAborts(err) THEN "closed" ELSE step,
                                     !.steps = Append(shut.steps, step),
                                     !.errs = IF err THEN shut.errs \cup {step}
                                              ELSE shut.errs]
                ELSE /\ UNCHANGED topics
                     /\ IF step = "closed"
                        THEN shut' = [shut EXCEPT !.pc = "closed"]
                        ELSE shut' = [shut EXCEPT
                                        !.pc = IF closeAborts(err) THEN "closed" ELSE step,
                                        !.steps = Append(shut.steps, step),
                                        !.errs = IF err /\ (step # "topics")
                                                 THEN shut.errs \cup {step}
                                                 ELSE shut.errs]
  /\ UNCHANGED <<lwwVars, repVars, bcastVars, p2pcols, existing, built, p2pCall,
                 docs, closed, queuedChildren, blockstore, merged,
                 pushLogEmitter, events, call, faults>>

\* handleBroadcastLoop: the receive from the closed update channel reports
\* !isOpen and the loop returns
LoopExit ==
  /\ ps
  /\ bc.pc = "recv"
  /\ updateChannelClosed
  /\ bc' = [bc EXCEPT !.pc = "exited"]
  /\ UNCHANGED <<topics, topicCall, delSeen>>
  /\ TopicFrame

\* the context NewPeer derived p.ctx from is cancelled by its owner
CancelRoot ==
  /\ built.pc = "built"
  /\ ~shut.cancelled
  /\ shut' = [shut EXCEPT !.cancelled = TRUE]
  /\ UNCHANGED <<lwwVars, pushVars, repVars, bcastVars, p2pcols, existing, built,
                 p2pCall>>

\* p.ctx is done: its parent was cancelled or Close called p.cancel()
ctxDone == shut.cancelled \/ "cancel" \in SeqRange(shut.steps)

\* a step of the handleBroadcastLoop goroutine other than taking an event
LoopStep ==
  \/ Has
  \/ Register
  \/ PublishLookup
  \/ PublishAdd
  \/ PublishSend
  \/ ReadReps
  \/ PushLogToReplicators
  \/ LoopExit

\* the loop runs while the db sends update events, the context is cancelled
\* and Close is called
NextLoop ==
  \/ Recv
  \/ LoopStep
  \/ CancelRoot
  \/ CloseStep

\* the goroutine of the loop is scheduled whenever it can take a step; events
\* arrive, and the owner cancels and closes, when they choose to
SpecLoopFair == InitBcast /\ [][NextLoop]_vars /\ WF_vars(LoopStep)

\* Peer.Start, its last statement: go p.sendJobWorker()
Start ==
  /\ built.pc = "built"
  /\ built.worker = "none"
  /\ shut.pc = "open"
  /\ built' = [built EXCEPT !.worker = "running"]
  /\ UNCHANGED <<lwwVars, pushVars, repVars, bcastVars, p2pcols, existing, p2pCall,
                 shut>>

\* sendJobWorker returns when p.ctx is done
sendJobWorkerExit ==
  /\ built.worker = "running"
  /\ ctxDone
  /\ built' = [built EXCEPT !.worker = "exited"]
  /\ UNCHANGED <<lwwVars, pushVars, repVars, bcastVars, p2pcols, existing, p2pCall,
                 shut>>

\* PushLog, len(cids) > 0: processLog returned parents that are not stored;
\* handleChildBlocks has run and session.Wait() has returned
PushLogChildren(c) ==
  /\ call[c].pc = "commit"
  /\ ~call[c].handled
  /\ call' = [call EXCEPT ![c].pc = "closejob", ![c].handled = TRUE]
  /\ UNCHANGED <<docs, closed, queuedChildren, blockstore, merged, topics,
                 pushLogEmitter, events, faults>>
  /\ UNCHANGED <<lwwVars, repVars, bcastVars, nodeVars>>

\* PushLog: s.peer.closeJob <- docKey.DocKey. The channel has no buffer, so
\* the send ends when sendJobWorker receives from it
PushLogCloseJob(c) ==
  /\ call[c].pc = "closejob"
  /\ built.worker = "running"
  /\ call' = [call EXCEPT ![c].pc = "commit"]
  /\ UNCHANGED <<docs, closed, queuedChildren, blockstore, merged, topics,
                 pushLogEmitter, events, faults>>
  /\ UNCHANGED <<lwwVars, repVars, bcastVars, nodeVars>>

\* pushes for one docKey arrive at a node that was built; Start may be called
\* and the context may be cancelled at any time
NextPushWorker ==
  \/ \E c \in Calls : PushLogStartOf(c, {FairDocKey}, Cids)
                         /\ UNCHANGED <<lwwVars, repVars, bcastVars, nodeVars>>
  \/ \E c \in Calls : CallStep(c)
  \/ \E c \in Calls : PushLogChildren(c)
  \/ \E c \in Calls : PushLogCloseJob(c)
  \/ Start
  \/ CancelRoot
  \/ sendJobWorkerExit

\* every goroutine that can run is scheduled: the calls and the worker
SpecPushWorker ==
  /\ InitQueueFair
  /\ [][NextPushWorker]_vars
  /\ \A c \in Calls : WF_vars(CallStep(c) \/ PushLogCloseJob(c))
  /\ WF_vars(sendJobWorkerExit)

\* a running node with any topics, or none without pubsub; every step of
\* Close can fail
InitClose ==
  /\ InitTopicsIdle
  /\ ps \in BOOLEAN
  /\ topics \in [TopicNames -> {"none", "pub", "sub"}]
  /\ ~ps => topics = [t \in TopicNames |-> "none"]

NextClose == CloseStep

SpecClose == InitClose /\ [][NextClose]_vars

\* a node with pubsub that was built from a db with two documents and no
\* p2p collection
InitNode ==
  /\ InitTopicsIdle
  /\ ps = TRUE
  /\ topics = [t \in TopicNames |-> IF t \in existing THEN "sub" ELSE "none"]

\* p2p collections are added, the node is closed and started again
NextNode ==
  \/ CloseStep
  \/ AddP2PCollections
  \/ AddP2PRemoveKey
  \/ AddP2PCommit
  \/ newServerLoad
  \/ newServerCollections
  \/ newServerRegister
  \/ newServerReturn

SpecNode == InitNode /\ [][NextNode]_vars

\* NumDeliveries PushLog calls are made beside the loop; nothing fails and the node is
\* subscribed to no collection topic
InitPushBcast ==
  /\ InitLWWIdle
  /\ InitRepIdle
  /\ InitNodeIdle
  /\ InitBcastIdle
  /\ InitServer
  /\ topics[SchemaID] = "none"
  /\ pushLogEmitter = TRUE
  /\ faults = FALSE
  /\ call = [c \in Calls |->
               IF c <= NumDeliveries THEN IdleCall ELSE [IdleCall EXCEPT !.pc = "unused"]]

\* the loop and the PushLog calls that the RPC server runs beside it
NextPushBcast ==
  \/ Recv
  \/ Has
  \/ Register
  \/ PublishLookup
  \/ PublishAdd
  \/ PublishSend
  \/ ReadReps
  \/ PushLogToReplicators
  \/ NextPush

SpecPushBcast == InitPushBcast /\ [][NextPushBcast]_vars

\* the CID of the requests that arrive while p2p collections are added
P2PCids == {"x"}

\* a built node with pubsub and the docKey topics of its two documents; one
\* PushLog call is made and nothing fails
InitP2P ==
  /\ InitLWWIdle
  /\ InitRepIdle
  /\ InitNodeIdle
  /\ InitBcastIdle
  /\ docs = [d \in DocKeys |-> 0]
  /\ closed = {}
  /\ queuedChildren = {}
  /\ blockstore = {}
  /\ merged = {}
  /\ events = 0
  /\ topics = [t \in TopicNames |-> IF t \in existing THEN "sub" ELSE "none"]
  /\ pushLogEmitter = TRUE
  /\ faults = FALSE
  /\ call = [c \in Calls |->
               IF c = 1 THEN IdleCall ELSE [IdleCall EXCEPT !.pc = "unused"]]

\* AddP2PCollections beside the PushLog calls and the loop
NextP2P ==
  \/ AddP2PCollections
  \/ AddP2PRemoveKey
  \/ AddP2PCommit
  \/ Recv
  \/ Has
  \/ Register
  \/ PublishLookup
  \/ PublishAdd
  \/ PublishSend
  \/ ReadReps
  \/ PushLogToReplicators
  \/ \E c \in Calls : PushLogStartOf(c, DocKeys, P2PCids)
                         /\ UNCHANGED <<lwwVars, repVars, bcastVars, nodeVars>>
  \/ \E c \in Calls : CallStep(c)

SpecP2P == InitP2P /\ [][NextP2P]_vars

(***************************************************************************)
(* Claims about server.PushLog and its docQueue                            *)
(***************************************************************************)

\* the calls that got past the peer id check, i.e. that called docQueue.add
Made(c) == call[c].pc \notin {"idle", "unused"} /\ call[c].ret # "ErrPeerID"

SameRequest(a, b) ==
  /\ a # b
  /\ Made(a) /\ Made(b)
  /\ call[a].docKey = call[b].docKey
  /\ call[a].cid = call[b].cid

\* C1: for every docKey, at most one PushLog call is between the return of
\* docQueue.add(docKey) and its docQueue.done(docKey).
C1_OneHolderPerDocKey ==
  \A dk \in DocKeys :
    Cardinality({c \in Calls : call[c].pc \in InCritical /\ call[c].docKey = dk}) <= 1

\* C1 witness: one call holds a docKey while two others wait for it
C1_Witness ==
  \E dk \in DocKeys, h \in Calls :
    /\ call[h].pc \in InCritical /\ call[h].docKey = dk
    /\ Cardinality({c \in Calls : call[c].pc = "wait" /\ call[c].docKey = dk}) >= 2

\* a and b are the only calls that carried their CID, both returned success
\* and in neither did processLog return an error
TwoCleanDeliveries(a, b) ==
  /\ SameRequest(a, b)
  /\ \A c \in Calls \ {a, b} : ~(Made(c) /\ call[c].cid = call[a].cid)
  /\ \A c \in {a, b} :
       call[c].pc = "returned" /\ call[c].ret = "nil" /\ ~call[c].procErr

C6_DuplicateEmitsNothing ==
  pushLogEmitter =>
    \A a, b \in Calls :
      ( /\ SameRequest(a, b)
        /\ call[a].pc = "returned" /\ call[a].stored /\ call[a].ret = "nil"
        /\ call[b].pc = "returned" /\ call[b].hadBlock /\ call[b].ret = "nil" ) =>
        /\ call[a].emitted = 1
        /\ call[b].emitted = 0

\* C7: PushLog opens a fresh transaction for each attempt, makes at most
\* MaxTxnRetries commit attempts, starts another attempt only after a commit
\* ended in a write conflict, returns any other commit error at once, and
\* returns ErrMaxTxnRetries exactly when MaxTxnRetries attempts all ended in
\* a write conflict.
C7_RetryOnConflictOnly ==
  \A c \in Calls :
    LET k == call[c]
    IN  /\ k.commits <= MaxTxnRetries
        /\ k.opened <= MaxTxnRetries
        /\ k.commits <= k.opened
        /\ k.opened <= k.commits + 1
        /\ k.opened <= k.conflicts + 1
        /\ k.ret = "ErrCommit" =>
             /\ k.commits = k.conflicts + 1
             /\ k.opened = k.commits
             /\ ~k.committed
        /\ k.ret = "ErrMaxTxnRetries" <=>
             /\ k.ret # "none"
             /\ k.conflicts = MaxTxnRetries
             /\ k.commits = MaxTxnRetries

\* C7 witness: a call went through a write conflict and then committed, while
\* another ran out of retries
C7_Witness ==
  \E a, b \in Calls :
    /\ call[a].pc = "returned" /\ call[a].ret = "ErrMaxTxnRetries"
    /\ call[b].pc = "returned" /\ call[b].conflicts > 0 /\ call[b].committed

\* C8: when processLog fails (the block is not stored, its delta not decoded
\* or not merged) PushLog returns an error and commits no transaction for the
\* request.
C8_ProcessLogFailureAborts ==
  \A c \in Calls :
    call[c].procErr =>
      /\ ~call[c].committed
      /\ call[c].ret # "nil"

(***************************************************************************)
(* Claims about the LWW register                                           *)
(***************************************************************************)

\* C2, with the stored state the merges start from: merging any deltas without error, in any order and with
\* any repetition, from a stored state leaves the register with the priority
\* and value that are greatest, under (Priority, then Data in lexicographic
\* order), among that stored state and the deltas merged.
C2_ConvergesToGreatest ==
  Stored(store) = IF lwwMax = NoDelta THEN lwwBase ELSE PairMax(lwwBase, lwwMax)

\* C2 witness: a delta won a tie on priority against a non-empty stored state
C2_Witness ==
  /\ lwwMax # NoDelta
  /\ lwwBase.Priority > 0
  /\ lwwMax.Priority = lwwBase.Priority
  /\ lwwMax # lwwBase
  /\ Stored(store) = lwwMax

\* C2, as the greatest delta alone: the final priority and value are those of the greatest
\* delta merged, whatever the stored state the merges started from.
C2_GreatestDeltaWins ==
  lwwMax # NoDelta => Stored(store) = lwwMax

C4_PriorityMonotone ==
  /\ lwwRet = "nil" => getPriority(store) >= lwwDelta.Priority
  /\ getPriority(store) >= getPriority(lwwPre)

\* C4 witness: a delta of lower priority than the stored one was merged
C4_Witness ==
  /\ lwwRet = "nil"
  /\ lwwDelta.Priority >= 0
  /\ lwwDelta.Priority < getPriority(lwwPre)
  /\ getPriority(store) = getPriority(lwwPre)

(***************************************************************************)
(* Claims about the replicator registry of the peer                        *)
(***************************************************************************)

\* C9: SetReplicator called with the address of the node itself returns an
\* error and leaves the replicator map, the peerstore and the persisted
\* records as they were, and in no state reached by SetReplicator and
\* DeleteReplicator calls is the node's own ID in a replicator set, in the
\* peerstore or in a persisted record.
C9_SelfNeverReplicator ==
  /\ (repCall.op = "Set" /\ repCall.pid = HostID) =>
       /\ repRet \notin {"nil", "none"}
       /\ ~repCall.changed
       /\ ~repCall.persistCalled
  /\ \A sch \in Schemas : HostID \notin replicators[sch]
  /\ HostID \notin peerstore
  /\ persisted[HostID] = {}

\* SetReplicator refused the node's own address while the registry held a
\* replicator
C9_Witness ==
  /\ repCall.op = "Set"
  /\ repCall.pid = HostID
  /\ repRet = "ErrSelfReplicator"
  /\ \E sch \in Schemas : replicators[sch] # {}

\* C10: SetReplicator for a peer that already is a replicator of one of the
\* collections it names returns an error and does not persist a replicator
\* record; the error is the 'replicator already exists' one whenever the
\* collections and the address were resolved.
C10_DuplicateRejected ==
  (repCall.op = "Set" /\ repCall.hadPair) =>
    /\ repRet \notin {"nil", "none"}
    /\ ~repCall.persistCalled
    /\ repCall.reached => repRet = "ErrReplicatorExists"

\* SetReplicator was called again for a peer that is persisted as a replicator
C10_Witness ==
  /\ repCall.op = "Set"
  /\ repCall.hadPair
  /\ repCall.reached
  /\ repRet = "ErrReplicatorExists"
  /\ \E q \in PeerIDs : persisted[q] # {}

\* C11: a SetReplicator that returns an error after it added the peer to the
\* replicator set of some schema (the persist failed, or a later collection of
\* the call was a duplicate) leaves the replicator map as it was before the call.
C11_ErrorRollsBack ==
  (repCall.op = "Set" /\ repRet \in {"ErrPersist", "ErrReplicatorExists"}) =>
    ~repCall.mapChanged

\* C12: after a SetReplicator or DeleteReplicator that returned success, and
\* after loadReplicators at startup, the replicator set of every schema is the
\* set of the peers whose persisted record lists the schema.
C12_MemoryEqualsPersisted ==
  (repCall.op \in {"Set", "Delete", "Load"} /\ repRet = "nil") =>
    \A sch \in Schemas : replicators[sch] = {q \in PeerIDs : sch \in persisted[q]}

C15_ClearsIffNoSchemaLeft ==
  repCall.op = "Delete" =>
    LET pid  == repCall.pid
        left == \E sch \in Schemas : pid \in replicators[sch]
    IN  IF repRet \in {"nil", "ErrPersist", "ErrCommit"}
        THEN /\ repCall.clearCalled <=> ~left
             /\ repCall.clearCalled => pid \notin peerstore
             /\ (~repCall.clearCalled /\ repCall.hadAddrs) => pid \in peerstore
        ELSE /\ ~repCall.clearCalled
             /\ repCall.hadAddrs <=> pid \in peerstore

\* DeleteReplicator removed one schema of a peer that replicates another and
\* kept the addresses of the peer
C15_Witness ==
  /\ repCall.op = "Delete"
  /\ repRet = "nil"
  /\ repCall.mapChanged
  /\ ~repCall.clearCalled
  /\ repCall.hadAddrs
  /\ repCall.pid \in peerstore

(***************************************************************************)
(* Claims about the broadcast loop and the pubsub topics                   *)
(***************************************************************************)

\* C14: once DeleteReplicator(peer, collection) has returned, no update event
\* of the schema of the collection that the broadcast loop starts to handle
\* afterwards triggers a direct pushLog to the peer.
C14_NoPushAfterDelete ==
  (bc.priority > 1 /\ bc.schema = EventSchema) =>
    bc.pushes \cap delSeen = {}

\* the table entry of the topic of the last call, by the entry before the call
AddTopicModes ==
  topicCall.ret = "nil" =>
    LET now == topics[topicCall.topic]
        pre == topicCall.pre
    IN  /\ pre = "none" => now = (IF topicCall.subscribe THEN "sub" ELSE "pub")
        /\ (pre \in {"pub", "pubClosed"} /\ topicCall.subscribe) => now = "sub"
        /\ pre = "sub" => now = "sub"
        /\ (pre \in {"pub", "pubClosed"} /\ ~topicCall.subscribe) => now = pre

\* a step leaves a subscribed topic subscribed or removes it
NoDowngrade ==
  \A t \in TopicNames : topics[t] = "sub" => topics'[t] \in {"sub", "none"}

\* C16, on a node with a pubsub network: an addPubSubTopic(topic, subscribe)
\* that returns success creates an absent topic in the requested mode,
\* replaces a publish-only topic by a subscribed one when subscribe is true,
\* and changes nothing when the topic is subscribed already or is
\* publish-only and added publish-only again; and no step turns a subscribed
\* topic into a publish-only one.
C16_AddTopicModes ==
  /\ [](ps => AddTopicModes)
  /\ [][NoDowngrade]_vars

\* C16, on every node: an addPubSubTopic(topic, subscribe) that returns
\* success creates an absent topic in the requested mode, replaces a
\* publish-only topic by a subscribed one when subscribe is true, and changes
\* nothing when the topic is subscribed already or is publish-only and added
\* publish-only again; and no step turns a subscribed topic into a
\* publish-only one.
C16_AddTopicModesAnyNode ==
  /\ []AddTopicModes
  /\ [][NoDowngrade]_vars

\* a publish-only topic was added again with subscribe and is subscribed now
C16_Witness ==
  /\ ps
  /\ topicCall.ret = "nil"
  /\ topicCall.pre = "pub"
  /\ topicCall.subscribe
  /\ topics[topicCall.topic] = "sub"

\* C17: when addPubSubTopic(topic, true) returns, with or without an error,
\* on a topic that was publish-only, the table maps the topic to the
\* publish-only handle it held, still open, or to a new open subscribed
\* handle, and never to a closed handle.
C17_NeverClosedHandle ==
  (topicCall.subscribe /\ topicCall.pre = "pub" /\ topicCall.ret # "none") =>
    topics[topicCall.topic] \in {"pub", "sub"}

\* C18, for the calls that return success: a publishLog that does not find
\* its topic adds it publish-only, never subscribed, looks the topic up again
\* once after each add and publishes the message exactly once; it makes a
\* single add and a single retry of the lookup unless a removePubSubTopic
\* removed the topic in between, and a call that finds the topic adds nothing.
C18_PublishOnAbsent ==
  LET p == bc.pl
  IN  /\ ~p.addSub
      /\ p.publishes <= 1
      /\ p.adds <= p.lookups
      /\ p.lookups <= p.adds + 1
      /\ p.adds > 0 => p.absent
      /\ p.ret = "nil" =>
           /\ p.publishes = 1
           /\ p.lookups = p.adds + 1
           /\ (p.absent /\ ~p.removed) => p.adds = 1

\* a publishLog created its topic twice, a removePubSubTopic having removed
\* it after the first add, and then published
C18_Witness ==
  /\ bc.pl.ret = "nil"
  /\ bc.pl.absent
  /\ bc.pl.removed
  /\ bc.pl.adds = 2
  /\ bc.pl.lookups = 3
  /\ bc.pl.publishes = 1

\* C18, with the single retry under concurrent removals: a publishLog that
\* does not find its topic adds it publish-only, never subscribed, and
\* publishes the message exactly once after a single retry of the lookup,
\* also when removePubSubTopic calls run concurrently.
C18_SingleRetry ==
  (bc.pl.absent /\ bc.pl.ret = "nil") =>
    /\ ~bc.pl.addSub
    /\ bc.pl.publishes = 1
    /\ bc.pl.adds = 1
    /\ bc.pl.lookups = 2

\* C19, on the topic of the schema: the handler of a document-create event
\* (Priority 1) publishes the log at most once, on the topic of the schema of
\* the document and never on its docKey topic, and once when it returns
\* success.
C19_CreatePublishedOnSchema ==
  bc.priority = 1 =>
    /\ \A i \in 1..Len(bc.pubs) : bc.pubs[i] = bc.schema
    /\ Len(bc.pubs) <= 1
    /\ bc.ret = "nil" => bc.pubs = <<bc.schema>>

\* a document-create event was handled without error and its docKey topic
\* registered
C19_Witness ==
  /\ bc.priority = 1
  /\ bc.ret = "nil"
  /\ bc.registered # "none"
  /\ bc.pubs = <<bc.schema>>

\* C19, on the docKey topic: the handler of a document-create event
\* (Priority 1) that returns success has published the log on the docKey
\* topic of the created document.
C19_CreatePublishedOnDocKey ==
  (bc.priority = 1 /\ bc.ret = "nil") =>
    \E i \in 1..Len(bc.pubs) : bc.pubs[i] = bc.docKey

\* C20: for every document-create event (Priority 1), if the node is not
\* subscribed to the topic of the schema of the document when the event is
\* handled, the docKey topic of the document is registered in subscribed mode.
C20_DocKeySubscribed ==
  (bc.priority = 1 /\ bc.registered # "none" /\ ~bc.schemaSub) =>
    bc.registered = "sub"

\* C21: the handler of a document-update event (Priority greater than 1) that
\* returns success has published the log once on the docKey topic and once
\* on the schema-id topic; it publishes on no other topic, and on the schema-id
\* topic only after the docKey topic.
C21_UpdatePublishedOnBoth ==
  bc.priority > 1 =>
    /\ bc.pubs \in {<<>>, <<bc.docKey>>, <<bc.docKey, bc.schema>>}
    /\ bc.ret = "nil" => bc.pubs = <<bc.docKey, bc.schema>>

\* a document-update event was handled without error
C21_Witness ==
  /\ bc.priority > 1
  /\ bc.ret = "nil"
  /\ bc.pubs = <<bc.docKey, bc.schema>>

\* C22: for each event that pushLogToReplicators ran for, the peers a direct
\* push was started for are the replicators of the schema of the event less
\* the peers ListPeers reported for the docKey topic or the schema-id topic;
\* the replicators are those of the set as it was read, a peer that a
\* SetReplicator or DeleteReplicator added or removed between the read and the
\* iteration being pushed to or not.
C22_PushTargets ==
  /\ ~bc.pushed => bc.pushes = {}
  /\ bc.pushed =>
       /\ bc.pushes \cap bc.listed = {}
       /\ ((bc.snap \cap bc.live) \ bc.listed) \subseteq bc.pushes
       /\ bc.pushes \subseteq ((bc.snap \cup bc.live) \ bc.listed)
       /\ bc.snap = bc.live => bc.pushes = bc.snap \ bc.listed

\* a push was started for a replicator that listens to neither topic, no
\* replicator call having run meanwhile
C22_Witness ==
  /\ bc.pushed
  /\ bc.priority > 1
  /\ bc.snap = bc.live
  /\ bc.snap # {}
  /\ bc.listed = {}
  /\ bc.pushes = bc.snap

\* C30: every event with Priority at least 1 whose handler has returned, with
\* or without an error of the topic registration or of the publish, has led
\* to direct pushes to all replicators of its schema that listen to neither
\* topic.
C30_PushesDespiteFailures ==
  (bc.priority >= 1 /\ bc.pc = "recv" /\ bc.ret \notin {"none", "ErrDocKey"}) =>
    /\ replicators[bc.schema] # {} => bc.pushed
    /\ bc.pushed => ((bc.snap \cap bc.live) \ bc.listed) \subseteq bc.pushes

\* the positions of PushLog between a Visit that returned true and the
\* deferred queuedChildren.Remove
Visiting == {"has", "attempt", "commit", "closejob", "subscribe", "addtopic", "remove"}

\* C29: a CID is in queuedChildren exactly while one PushLog call whose Visit
\* returned true has not yet run its deferred Remove, and no two calls are
\* past a successful Visit of one CID: every exit path of such a call removes
\* the CID and a call whose Visit returned false removes nothing.
C29_VisitSetTracksCalls ==
  \A cid \in Cids :
    /\ Cardinality({c \in Calls : call[c].pc \in Visiting /\ call[c].cid = cid}) <= 1
    /\ cid \in queuedChildren <=>
         \E c \in Calls : call[c].pc \in Visiting /\ call[c].cid = cid

\* C29 witness: while one call processes a CID, another call for the same CID
\* was refused by Visit (it returns nil without a transaction and the block
\* is not stored) and the CID is still in the set
C29_Witness ==
  \E a, b \in Calls :
    /\ a # b /\ call[a].cid = call[b].cid
    /\ call[a].pc \in Visiting
    /\ call[b].pc \in {"done", "returned"} /\ call[b].ret = "nil" /\ call[b].opened = 0
    /\ call[a].cid \notin blockstore
    /\ call[a].cid \in queuedChildren

\* C24: when a PushLog call that committed has returned and the node is not
\* subscribed to the topic of the collection of the document, the docKey
\* topic of the document is registered in subscribed mode.
C24_SubscribedAfterCommit ==
  \A c \in Calls :
    (call[c].pc = "returned" /\ call[c].committed /\ topics[SchemaID] # "sub") =>
      topics[call[c].docKey] = "sub"

\* call c is inside docQueue.add(dk)
InAdd(c, dk) == call[c].pc \in {"add", "wait"} /\ call[c].docKey = dk

\* a PushLog call has just called docQueue.add(dk) and has not looked it up yet
Arriving(dk) ==
  \E c \in Calls : call[c].pc = "add" /\ call[c].docKey = dk /\ call[c].done = 0

\* C27 as stated: every holder calls done and the scheduling is fair, so
\* every docQueue.add(docKey) call eventually returns.
C27_EveryAddReturns ==
  \A c \in Calls, dk \in DocKeys :
    InAdd(c, dk) ~> (call[c].pc \in InCritical)

\* C27: every holder calls done and the scheduling is fair; when from some
\* time on no new add(docKey) call is made, every docQueue.add(docKey) call
\* eventually returns, however many calls wait for the docKey.
C27_AddReturnsWhenArrivalsStop ==
  \A c \in Calls, dk \in DocKeys :
    (<>[]~Arriving(dk)) => (InAdd(c, dk) ~> (call[c].pc \in InCritical))

\* C27 witness: two calls wait for the channel of the holder of a docKey
C27_Witness ==
  \E dk \in DocKeys, h \in Calls :
    /\ docs[dk] = h /\ call[h].pc \in InCritical
    /\ Cardinality({c \in Calls : call[c].pc = "wait" /\ call[c].docKey = dk
                                   /\ call[c].done = h}) >= 2

\* C28: the second docQueue.add(docKey) of a goroutine that holds docKey has
\* returned only if a done(docKey) call closed the channel of its first add;
\* as long as no done is called no second add returns.
C28_SecondAddWaitsForDone ==
  \A c \in Calls :
    call[c].pc = "again" => (c \in closed /\ docs[call[c].docKey] # c)

\* C28 witness: a holder waits in its second add for its own channel, which
\* nobody has closed
C28_Witness ==
  \E c \in Calls :
    /\ call[c].pc = "rewait" /\ call[c].done = c
    /\ docs[call[c].docKey] = c /\ c \notin closed

\* the steps of Close in the order the specification gives
CloseOrder == <<"topics", "rpc", "emitters", "updates", "bserv", "cancel">>

\* C25: the steps Close has performed are always the first ones of: close the
\* pubsub topics, stop the RPC server, close the emitters, unsubscribe from
\* the update channel, close the block service, cancel the root context; and
\* when Close has returned it has performed all six, whichever of them failed.
C25_CloseOrder ==
  /\ Len(shut.steps) <= Len(CloseOrder)
  /\ \A i \in 1..Len(shut.steps) : shut.steps[i] = CloseOrder[i]
  /\ shut.pc = "closed" => shut.steps = CloseOrder

\* C25 witness: Close has returned after every step that can fail failed
C25_Witness ==
  /\ shut.pc = "closed"
  /\ shut.errs = closeCanFail
  /\ shut.steps = CloseOrder

\* C26: when the construction of a node with pubsub has ended and no call it
\* made returned an error, the node is built and, before it is used or
\* closed, every schema id of the persisted
\* p2p collections has a subscribed topic, every existing document of a
\* collection outside them has a subscribed docKey topic, and no document of
\* a collection among them has a docKey topic.
C26_TopicsAfterConstruction ==
  (ps /\ built.pc \in {"built", "panic"} /\ shut.pc = "open") =>
    /\ built.pc = "built"
    /\ p2pCall.pc = "idle" =>
         /\ \A col \in p2pcols : topics[col] = "sub"
         /\ \A key \in existing :
              topics[key] = IF SchemaID \in p2pcols THEN "none" ELSE "sub"

\* C23: whenever the collection topic of a schema is subscribed and no
\* AddP2PCollections call is in progress, no docKey topic of a document of
\* the collection is subscribed.
C23_NoDocKeyTopicBesideCollectionTopic ==
  (topics[SchemaID] = "sub" /\ p2pCall.pc \in {"idle", "done"}) =>
    \A key \in existing : topics[key] # "sub"

\* C40: whenever a PushLog call has returned success, the block of its CID is
\* in the block store.
C40_SuccessMeansBlockStored ==
  \A c \in Calls :
    (call[c].pc = "returned" /\ call[c].ret = "nil") => call[c].cid \in blockstore

\* C33: when removeAllPubsubTopics has returned (the first step of Close is
\* done), the topic table is empty: every topic was deleted and closed.
C33_TableEmptyAfterRemoveAll ==
  Len(shut.steps) >= 1 => \A t \in TopicNames : topics[t] = "none"

\* an AddP2PCollections call has returned the error of a collection topic it
\* could not subscribe
AddTopicFailed ==
  /\ p2pCall.op = "add"
  /\ p2pCall.pc = "done"
  /\ p2pCall.at > 0

\* C31: when subscribing a collection topic failed inside AddP2PCollections,
\* the collection topics added earlier in the call are in the topic table no
\* more, and the collections of the call are in the persisted set.
C31_TopicsUndoneStoreKept ==
  AddTopicFailed =>
    /\ \A t \in SeqRange(p2pCall.addedTopics) : topics[t] = "none"
    /\ SeqRange(p2pCall.cols) \subseteq p2pcols

\* C31, amended: when subscribing a collection topic fails inside
\* AddP2PCollections, the collection topics added earlier in the call are
\* removed in order up to the first removal that fails (all of them when none
\* fails), and the call leaves the persisted set as it was.
C31_TopicsUndoneStoreDiscarded ==
  [][(p2pCall' # p2pCall /\ AddTopicFailed') =>
       /\ p2pcols' = p2pcols
       /\ \E k \in 0..Len(p2pCall'.addedTopics) :
            /\ IF p2pCall'.ret = "ErrUndo" THEN k >= 1
               ELSE k = Len(p2pCall'.addedTopics)
            /\ \A j \in 1..Len(p2pCall'.addedTopics) :
                 topics'[p2pCall'.addedTopics[j]] = IF j <= k THEN "none" ELSE "sub"]_vars

\* a topic failure after two topics were added, for collections that are not
\* persisted
C31_Witness ==
  /\ AddTopicFailed
  /\ Len(p2pCall.addedTopics) = 2
  /\ SeqRange(p2pCall.cols) \cap p2pcols = {}

\* C38: when AddP2PCollections has returned an error, every collection topic
\* that was subscribed before the call is subscribed.
C38_FailedAddKeepsSubscribed ==
  (p2pCall.op = "add" /\ p2pCall.pc = "done" /\ p2pCall.ret # "nil") =>
    \A t \in p2pCall.pre : topics[t] = "sub"

\* C32: when removing a collection topic failed inside RemoveP2PCollections,
\* the collection topics the call removed before it are subscribed.
C32_RemovedTopicsSubscribedAgain ==
  (p2pCall.op = "remove" /\ p2pCall.pc = "done" /\ p2pCall.at > 0) =>
    \A i \in 1..(p2pCall.at - 1) :
      p2pCall.cols[i] \in p2pCall.pre => topics[p2pCall.cols[i]] = "sub"

\* C39: when an AddP2PCollections or RemoveP2PCollections call has returned, a
\* collection topic is subscribed exactly if its schema id is in the persisted
\* set.
C39_SubscribedIffPersisted ==
  p2pCall.pc = "done" =>
    \A col \in CollectionIDs : (topics[col] = "sub") <=> (col \in p2pcols)

\* C34: once p.ctx is done the broadcast loop eventually exits, and it takes
\* no update event from then on.
C34_LoopExitsOnCancel ==
  /\ ctxDone ~> (bc.pc = "exited")
  /\ [][ctxDone => ~Recv]_vars

\* C37: a PushLog call that holds the doc queue eventually returns, having
\* released it.
C37_PushLogReleasesQueue ==
  \A c \in Calls :
    (call[c].pc \in InCritical) ~>
      (call[c].pc = "returned" /\ docs[call[c].docKey] # c)

\* C35: no replicator call has made a peerstore or datastore call while it
\* held Peer.mu.
C35_NoIOUnderMu == ioUnderMu(repCall) = {}

\* C36: the replicator set pushLogToReplicators iterates is not written
\* between its read under Peer.mu and the iteration: the set iterated is the
\* set read.
C36_IterationSeesLockedRead == bc.pushed => bc.snap = bc.live

====
